---- MODULE Spec2Model ----
(***************************************************************************)
(* The activity ledger of Intellisynth: the SQL-backed logger service      *)
(* (app/services/activity_logger.py), the REST routes over the same table  *)
(* (app/api/activity_routes.py) and the Firestore-backed logger service    *)
(* (app/services/activity_logger_firestore.py), and the anomaly detection  *)
(* engine that reads the ledger (app/services/anomaly_detection.py).       *)
(*                                                                         *)
(* Time is a counter of clock readings (datetime.utcnow()); two calls may  *)
(* receive the same reading.  Strings are strings: the hash input is the   *)
(* f-string the code builds, and a digest is written "h(" input ")", an    *)
(* injective stand-in for the truncated SHA-256 (no collisions).  The      *)
(* numbers of the detection engine (metric values, means, deviations,      *)
(* confidences) are written in hundredths, so that 0.02 is 2 and 95 is     *)
(* 9500, and its comparisons are made exactly.                             *)
(***************************************************************************)
EXTENDS Integers, Sequences, FiniteSets, TLC

VARIABLES
    db,      \* table activity_logs: the rows in insertion (rowid) order
    cache,   \* ActivityLoggerService._cache: list of activity dicts
    now,     \* the reading datetime.utcnow() returns
    uuid,    \* number of uuid4() ids given to rows so far (each draw is fresh)
    ret,     \* the last operation, its arguments and what it returned
    tamper,  \* the out-of-band alteration made to the table, if any
    fs,      \* Firestore collection activity_logs: document id -> document
    fcache,  \* ActivityLoggerServiceFirestore._cache
    baseline_metrics,  \* AnomalyDetectionService.baseline_metrics
    pattern_cache,     \* AnomalyDetectionService.pattern_cache
    anomaly_history,   \* AnomalyDetectionService.anomaly_history
    passes   \* the detect_anomalies() calls in progress: where each stands

\* the fields of the detection engine and its calls in progress
engine == <<baseline_metrics, pattern_cache, anomaly_history, passes>>

vars == <<db, cache, now, uuid, ret, tamper, fs, fcache, engine>>

\* what the SQL service and the routes never touch
beyond_sql == <<tamper, fs, fcache, engine>>

\* what the Firestore service never touches
beyond_firestore == <<db, cache, uuid, tamper, engine>>

----------------------------------------------------------------------------
(* Bounds of the model *)

MaxAppends == 2
MaxClock == 2
MaxLimit == 2

(* Program constants *)

cache_limit == 100
PreviewCap == 10

----------------------------------------------------------------------------
(* Values *)

None == "<None>"

\* f"{x}" : None renders as the text None
Fmt(x) == IF x = None THEN "None" ELSE x

\* datetime.isoformat(): date and time joined by "T"
isoformat(t) == "T" \o ToString(t)

\* str(datetime), what f"{datetime}" renders: date and time joined by a space
str_datetime(t) == " " \o ToString(t)

\* datetime.fromisoformat(), on the strings isoformat() produces
fromisoformat(s) == CHOOSE t \in 0..(MaxClock + 1) : isoformat(t) = s

generate_hash(activity_data) == "h(" \o activity_data \o ")"

\* a hash input that leaves the message out
hash_input_without_message(agent_id, action_type, ts, message) ==
    Fmt(agent_id) \o "-" \o Fmt(action_type) \o "-" \o ts

\* f"{agent_id}-{action_type}-{timestamp}-{message}"
hash_input(agent_id, action_type, ts, message) ==
    Fmt(agent_id) \o "-" \o Fmt(action_type) \o "-" \o ts \o "-" \o Fmt(message)

\* a dict is a function on its keys; {} is the function on no key
EmptyDict == [k \in {} |-> 0]

Has(d, k) == k \in DOMAIN d

\* d[k] = v
SetKey(d, k, v) == [x \in DOMAIN d \cup {k} |-> IF x = k THEN v ELSE d[x]]

\* the payload log_activity stores: data or {} (a caller's None is the dict
\* {} here), with the three required keys filled in when absent (confidence
\* and impact_score in tenths)
FillDefaults(data, action_type) ==
    LET d0 == data
        d1 == IF Has(d0, "execution_time") THEN d0 ELSE SetKey(d0, "execution_time", 0)
        d2 == IF Has(d1, "resource_usage") THEN d1
              ELSE SetKey(d1, "resource_usage", [cpu |-> 0, memory |-> 0, network |-> 0])
        d3 == IF Has(d2, "metadata") THEN d2
              ELSE SetKey(d2, "metadata",
                          [context |-> action_type, confidence |-> 10, impact_score |-> 50])
    IN  d3

\* the requests callers make
Request(a, ty, m, s, d) ==
    [agent_id |-> a, action_type |-> ty, message |-> m, severity |-> s, data |-> d]

\* log_activity calls: two well-formed ones, one with an empty agent_id, one
\* with agent_id None
Requests ==
    { Request("a1", "decision", "m", "info", EmptyDict),
      Request("a2", "error", "m", "critical", [execution_time |-> 4]),
      Request("", "decision", "m", "info", EmptyDict),
      Request(None, "decision", "m", "info", EmptyDict) }

\* POST / bodies: a well-formed one, one with an empty message, one without
\* agent_id
RouteRequests ==
    { Request("a1", "decision", "m", "info", EmptyDict),
      Request("a1", "decision", "", "info", EmptyDict),
      Request(None, "decision", "m", "info", EmptyDict) }

----------------------------------------------------------------------------
(* Sequences *)

Range(s) == { s[i] : i \in 1..Len(s) }

Min2(a, b) == IF a < b THEN a ELSE b

RECURSIVE Join(_)
\* ''.join(strings)
Join(ss) == IF ss = <<>> THEN "" ELSE Head(ss) \o Join(Tail(ss))

RECURSIVE SelectIdx(_, _, _)
SelectIdx(s, keep, i) ==
    IF i > Len(s) THEN <<>>
    ELSE IF i \in keep THEN <<s[i]>> \o SelectIdx(s, keep, i + 1)
    ELSE SelectIdx(s, keep, i + 1)

\* s[:n]
Take(s, n) == SubSeq(s, 1, Min2(n, Len(s)))

\* the orders in which a query with ORDER BY can return `rows`, keys[i] being
\* the sort key of rows[i]: every arrangement of them that ascends in the key
\* (rows that tie come in any order)
RECURSIVE OrderedBy(_, _)
OrderedBy(rows, keys) ==
    IF rows = <<>> THEN {<<>>}
    ELSE LET n == Len(rows)
             least == { i \in 1..n : \A j \in 1..n : keys[i] <= keys[j] }
             Without(s, i) == SubSeq(s, 1, i - 1) \o SubSeq(s, i + 1, n)
         IN  UNION { { <<rows[i]>> \o rest :
                         rest \in OrderedBy(Without(rows, i), Without(keys, i)) } :
                     i \in least }

\* ORDER BY timestamp ASC
Ascending(rows) == [i \in 1..Len(rows) |-> rows[i].timestamp]

\* ORDER BY timestamp DESC
Descending(rows) == [i \in 1..Len(rows) |-> 0 - rows[i].timestamp]

----------------------------------------------------------------------------
(* The ActivityLog model *)

\* ActivityLog.to_dict(): the row as a dict, the timestamp in ISO form
to_dict(row) ==
    [id |-> row.id, timestamp |-> isoformat(row.timestamp),
     agent_id |-> row.agent_id, action_type |-> row.action_type,
     severity |-> row.severity, message |-> row.message, data |-> row.data,
     user_id |-> row.user_id, session_id |-> row.session_id, hash |-> row.hash]

\* db.add + db.commit succeed: primary key and hash are unique, the
\* nullable=False columns are set
CanInsert(table, row) ==
    /\ \A i \in 1..Len(table) : table[i].id # row.id /\ table[i].hash # row.hash
    /\ row.agent_id # None
    /\ row.action_type # None
    /\ row.message # None
    /\ row.severity # None

\* a cache that keeps the first cache_limit records
update_cache_keeping_oldest(c, activity) ==
    LET c2 == Append(c, activity)
    IN  IF Len(c2) > cache_limit THEN SubSeq(c2, 1, cache_limit) ELSE c2

\* ActivityLoggerService._update_cache
update_cache(c, activity) ==
    LET c2 == Append(c, activity)
    IN  IF Len(c2) > cache_limit
        THEN SubSeq(c2, Len(c2) - cache_limit + 1, Len(c2))
        ELSE c2

----------------------------------------------------------------------------
\* the records appended so far: every log_activity call leaves one in its
\* service's cache, every row the route inserts takes one uuid
Appended == Len(cache) + uuid + Len(fcache)

\* the calls of detect_anomalies() that may be in progress at once
Passes == {"p1", "p2"}

Idle == [pc |-> "idle"]

\* AnomalyDetectionService.__init__: no baselines, no patterns, no history
EngineInit ==
    /\ baseline_metrics = EmptyDict
    /\ pattern_cache = EmptyDict
    /\ anomaly_history = <<>>
    /\ passes = [p \in Passes |-> Idle]

Init ==
    /\ db = <<>>
    /\ cache = <<>>
    /\ now = 0
    /\ uuid = 0
    /\ ret = [op |-> "init"]
    /\ tamper = <<>>
    /\ fs = EmptyDict
    /\ fcache = <<>>
    /\ EngineInit

\* the clock advances between calls
Tick ==
    /\ now < MaxClock
    /\ now' = now + 1
    /\ ret' = [op |-> "tick"]
    /\ UNCHANGED <<db, cache, uuid, beyond_sql>>

\* ActivityLoggerService.log_activity on the table `table` and the cache `c`;
\* timestamp: the clock reading the call takes; ok: the database accepts the
\* session.  What the call leaves in the table and in the cache, the tier
\* that took the record, and the dict it returns.
log_activity(table, c, req, timestamp, ok) ==
    LET activity_hash == generate_hash(
            hash_input(req.agent_id, req.action_type, isoformat(timestamp), req.message))
        db_activity ==
            [id |-> "activity-" \o ToString(timestamp) \o "-" \o activity_hash,
             timestamp |-> timestamp,
             agent_id |-> req.agent_id, action_type |-> req.action_type,
             severity |-> req.severity, message |-> req.message,
             data |-> FillDefaults(req.data, req.action_type),
             user_id |-> None, session_id |-> None,
             hash |-> activity_hash]
        activity == to_dict(db_activity)
    IN  IF ok /\ CanInsert(table, db_activity)
        THEN [db |-> Append(table, db_activity), cache |-> update_cache(c, activity),
              tier |-> "db", val |-> activity]
        ELSE [db |-> table, cache |-> update_cache(c, activity),
              tier |-> "cache", val |-> activity]

\* a caller's log_activity call
LogActivity(req, ok) ==
    /\ LET out == log_activity(db, cache, req, now, ok)
       IN  /\ db' = out.db
           /\ cache' = out.cache
           /\ ret' = [op |-> "log_activity", tier |-> out.tier, raised |-> FALSE,
                      val |-> out.val]
    /\ UNCHANGED <<now, uuid, beyond_sql>>

\* the row create_activity_log builds: the hash is taken over the clock
\* reading t, the row stores the reading t2 and takes the n-th uuid
create_activity_log(req, t, t2, n) ==
    LET hash_data == hash_input(req.agent_id, req.action_type,
                                str_datetime(t), req.message)
        activity_hash == generate_hash(hash_data)
    IN  [id |-> "uuid-" \o ToString(n),
         timestamp |-> t2,
         agent_id |-> req.agent_id, action_type |-> req.action_type,
         severity |-> req.severity, message |-> req.message,
         data |-> req.data,
         user_id |-> None, session_id |-> None,
         hash |-> activity_hash]

\* POST / : create_activity_log.  The request body is an ActivityLogCreate;
\* the hash is taken over one clock reading and the row stores a second one
\* (t2), the clock possibly having advanced in between.
CreateActivityLog(req, t2, ok) ==
    /\ Appended < MaxAppends
    /\ t2 \in now..Min2(now + 1, MaxClock)
    /\ IF req.agent_id = None \/ req.action_type = None \/ req.message = None
       THEN \* pydantic: a required str field is missing
            /\ ret' = [op |-> "create_activity_log", status |-> 422, req |-> req]
            /\ UNCHANGED <<db, cache, now, uuid, beyond_sql>>
       ELSE LET db_activity == create_activity_log(req, now, t2, uuid)
            IN  /\ now' = t2
                /\ UNCHANGED <<cache, beyond_sql>>
                /\ IF ok /\ CanInsert(db, db_activity)
                   THEN /\ db' = Append(db, db_activity)
                        /\ uuid' = uuid + 1
                        /\ ret' = [op |-> "create_activity_log", status |-> 200,
                                   val |-> db_activity]
                   ELSE /\ db' = db
                        /\ uuid' = uuid
                        /\ ret' = [op |-> "create_activity_log", status |-> 500,
                                   req |-> req]

\* the hash a verification pass expects of a record, `ts` being the
\* timestamp as the pass renders it into the hash input
expected_hash(activity, ts) ==
    generate_hash(hash_input(activity.agent_id, activity.action_type, ts, activity.message))

Ids(rows) == [i \in 1..Len(rows) |-> rows[i].id]

Hashes(rows) == [i \in 1..Len(rows) |-> rows[i].hash]

\* a report that lists the last invalid records found
IntegrityReportOfLast(rows, invalid_hashes, preview) ==
    [status |-> IF Len(invalid_hashes) = 0 THEN "verified" ELSE "compromised",
     total_records |-> Len(rows),
     verified_records |-> Len(rows) - Len(invalid_hashes),
     invalid_records |-> Len(invalid_hashes),
     system_hash |-> generate_hash(Join(Hashes(rows))),
     invalid_hashes |-> SubSeq(preview, Len(preview) - Min2(PreviewCap, Len(preview)) + 1,
                               Len(preview))]

\* the dict verify_integrity returns over the records `rows`
\* (integrity_percentage, a float, is left out)
IntegrityReport(rows, invalid_hashes, preview) ==
    [status |-> IF Len(invalid_hashes) = 0 THEN "verified" ELSE "compromised",
     total_records |-> Len(rows),
     verified_records |-> Len(rows) - Len(invalid_hashes),
     invalid_records |-> Len(invalid_hashes),
     system_hash |-> generate_hash(Join(Hashes(rows))),
     invalid_hashes |-> Take(preview, PreviewCap)]

\* what ActivityLoggerService.verify_integrity returns: the report over the
\* table in the order query.all() yields it, or over the cache when the
\* database raises
verify_integrity(ok) ==
    LET rows == IF ok THEN db ELSE cache
        bad == IF ok
               THEN { i \in 1..Len(db) :
                        db[i].hash # expected_hash(db[i], isoformat(db[i].timestamp)) }
               ELSE { i \in 1..Len(cache) :
                        cache[i].hash # expected_hash(cache[i], cache[i].timestamp) }
        invalid == SelectIdx(rows, bad, 1)
    IN  [op |-> "verify_integrity", tier |-> IF ok THEN "db" ELSE "cache",
         val |-> IntegrityReport(rows, invalid, Ids(invalid)),
         verification_timestamp |-> isoformat(now)]

\* a verify_integrity that writes the recomputed hash back into each row
VerifyIntegrityRepairing(ok) ==
    /\ ret' = verify_integrity(ok)
    /\ db' = [i \in 1..Len(db) |->
                [db[i] EXCEPT !.hash = expected_hash(db[i], isoformat(db[i].timestamp))]]
    /\ UNCHANGED <<cache, now, uuid, beyond_sql>>

\* ActivityLoggerService.verify_integrity: it reads and closes the session
VerifyIntegrity(ok) ==
    /\ ret' = verify_integrity(ok)
    /\ UNCHANGED <<db, cache, now, uuid, beyond_sql>>

\* GET /verify-integrity : the route's own pass, ORDER BY timestamp ASC
RouteVerifyIntegrity(ok) ==
    /\ IF ok
       THEN \E activities \in OrderedBy(db, Ascending(db)) :
              LET expected(a) == expected_hash(a, str_datetime(a.timestamp))
                  bad == { i \in 1..Len(activities) :
                             activities[i].hash # expected(activities[i]) }
                  invalid == SelectIdx(activities, bad, 1)
                  preview == [i \in 1..Len(invalid) |->
                                [id |-> invalid[i].id, timestamp |-> invalid[i].timestamp,
                                 expected |-> expected(invalid[i]),
                                 actual |-> invalid[i].hash]]
              IN  ret' = [op |-> "route_verify_integrity", status |-> 200,
                          val |-> IntegrityReport(activities, invalid, preview),
                          verification_timestamp |-> now]
       ELSE ret' = [op |-> "route_verify_integrity", status |-> 500]
    /\ UNCHANGED <<db, cache, now, uuid, beyond_sql>>

RECURSIVE Sum(_)
Sum(s) == IF s = <<>> THEN 0 ELSE Head(s) + Sum(Tail(s))

\* the counters get_activity_stats computes over a list of activity dicts
StatsOf(activities) ==
    LET n == Len(activities)
        Count(P(_)) == Cardinality({ i \in 1..n : P(activities[i]) })
        timed == SelectIdx(activities,
                           { i \in 1..n : Has(activities[i].data, "execution_time") }, 1)
        exec_times == [i \in 1..Len(timed) |-> timed[i].data["execution_time"]]
        IsDecision(a) == a.action_type = "decision"
        IsDataPoint(a) == a.action_type = "data_collection"
        IsError(a) == a.severity = "critical" \/ a.action_type = "error"
    IN  [total_activities |-> n,
         decisions |-> Count(IsDecision),
         data_points |-> Count(IsDataPoint),
         errors |-> Count(IsError),
         avg_response_time |-> IF exec_times = <<>> THEN 0
                               ELSE Sum(exec_times) \div Len(exec_times),
         active_agents |-> Cardinality({ activities[i].agent_id : i \in 1..n })]

\* ActivityLoggerService.get_activity_stats: over the table, or over the
\* cache when the database raises
GetActivityStats(ok) ==
    /\ LET activities == IF ok THEN [i \in 1..Len(db) |-> to_dict(db[i])] ELSE cache
       IN  ret' = [op |-> "get_activity_stats", tier |-> IF ok THEN "db" ELSE "cache",
                   val |-> StatsOf(activities)]
    /\ UNCHANGED <<db, cache, now, uuid, beyond_sql>>

\* DELETE / : cleanup_old_logs, the retention purge
CleanupOldLogs(older_than_days, ok) ==
    /\ older_than_days >= 1
    /\ LET cutoff_date == now - older_than_days
           doomed == { i \in 1..Len(db) : db[i].timestamp < cutoff_date }
       IN  IF ok
           THEN /\ db' = SelectIdx(db, (1..Len(db)) \ doomed, 1)
                /\ ret' = [op |-> "cleanup_old_logs", status |-> 204,
                           deleted_count |-> Cardinality(doomed),
                           cutoff_date |-> cutoff_date]
           ELSE /\ db' = db
                /\ ret' = [op |-> "cleanup_old_logs", status |-> 500]
    /\ UNCHANGED <<cache, now, uuid, beyond_sql>>

\* An alteration of one field of one stored row made directly in the table,
\* past the service and the routes (the schema's constraints still hold).
\* One alteration is made in a run: `tamper` records the row, the field and
\* whether the row verified before it.
HashedFields == {"agent_id", "action_type", "timestamp", "message", "hash"}

UnhashedFields == {"severity", "data", "user_id", "session_id"}

Forged(row, field) ==
    CASE field = "agent_id" -> {"a9"}
      [] field = "action_type" -> {"analysis"}
      [] field = "timestamp" -> (0..MaxClock) \ {row.timestamp}
      [] field = "message" -> {"m9"}
      [] field = "severity" -> {"low"}
      [] field = "data" -> {[execution_time |-> 9]}
      [] field = "user_id" -> {"u9"}
      [] field = "session_id" -> {"s9"}
      [] field = "hash" -> {"h(forged)",
                            expected_hash(row, isoformat(row.timestamp)),
                            expected_hash(row, str_datetime(row.timestamp))} \ {row.hash}

Tamper(i, field) ==
    /\ tamper = <<>>
    /\ i \in 1..Len(db)
    /\ \E value \in Forged(db[i], field) :
          /\ field = "hash" => \A j \in 1..Len(db) : db[j].hash # value
          /\ db' = [db EXCEPT ![i] = [db[i] EXCEPT ![field] = value]]
    /\ tamper' = <<[id |-> db[i].id, field |-> field,
                    verified_before |->
                        db[i].hash = expected_hash(db[i], isoformat(db[i].timestamp)),
                    route_verified_before |->
                        db[i].hash = expected_hash(db[i], str_datetime(db[i].timestamp))]>>
    /\ ret' = [op |-> "tamper"]
    /\ UNCHANGED <<cache, now, uuid, fs, fcache, engine>>

Next ==
    \/ Tick
    \/ \E req \in Requests, ok \in BOOLEAN : Appended < MaxAppends /\ LogActivity(req, ok)
    \/ \E req \in RouteRequests, t2 \in 0..MaxClock, ok \in BOOLEAN : CreateActivityLog(req, t2, ok)
    \/ \E ok \in BOOLEAN : VerifyIntegrity(ok)
    \/ \E ok \in BOOLEAN : RouteVerifyIntegrity(ok)
    \/ \E ok \in BOOLEAN : GetActivityStats(ok)
    \/ \E d \in 1..MaxClock, ok \in BOOLEAN : CleanupOldLogs(d, ok)

Spec == Init /\ [][Next]_vars

\* The ledger once storage has recovered for good: the calls that are made
\* keep being made, and reads of the table keep succeeding.
SpecRecovery ==
    /\ Init /\ [][Next]_vars
    /\ WF_vars(Next)
    /\ WF_vars(VerifyIntegrity(TRUE))
    /\ WF_vars(GetActivityStats(TRUE))

----------------------------------------------------------------------------
(* Queries.  An optional `since` is <<>> (None) or <<t>>. *)

\* `if x:` on an optional string: None and "" do not filter
Truthy(x) == x # None /\ x # ""

Filter(a, ty, sv, since) == [agent_id |-> a, action_type |-> ty, severity |-> sv, since |-> since]

Sinces == {<<>>, <<0>>, <<1>>}

\* the filter combinations the queries are made with
FieldFilters ==
    { <<None, None, None>>, <<"a1", None, None>>, <<None, "error", None>>,
      <<"a2", None, "critical">> }

Filters == { Filter(c[1], c[2], c[3], since) : c \in FieldFilters, since \in Sinces }

\* the three equality filters, as both tiers apply them
MatchesFields(a, f) ==
    /\ Truthy(f.agent_id) => a.agent_id = f.agent_id
    /\ Truthy(f.action_type) => a.action_type = f.action_type
    /\ Truthy(f.severity) => a.severity = f.severity

\* ActivityLog.timestamp > since
After(t, since) == since # <<>> => t > since[1]

\* ActivityLog.timestamp >= since
NotBefore(t, since) == since # <<>> => t >= since[1]

RECURSIVE InsertNewestFirst(_, _)
\* x put behind every element that is as new or newer
InsertNewestFirst(x, sorted) ==
    IF sorted = <<>> THEN <<x>>
    ELSE IF fromisoformat(Head(sorted).timestamp) >= fromisoformat(x.timestamp)
         THEN <<Head(sorted)>> \o InsertNewestFirst(x, Tail(sorted))
         ELSE <<x>> \o sorted

RECURSIVE InsertOldestFirst(_, _)
InsertOldestFirst(x, sorted) ==
    IF sorted = <<>> THEN <<x>>
    ELSE IF fromisoformat(Head(sorted).timestamp) <= fromisoformat(x.timestamp)
         THEN <<Head(sorted)>> \o InsertOldestFirst(x, Tail(sorted))
         ELSE <<x>> \o sorted

RECURSIVE SortOldestFirst(_)
\* a sort that forgets reverse=True
SortOldestFirst(activities) ==
    IF activities = <<>> THEN <<>>
    ELSE InsertOldestFirst(activities[Len(activities)],
                           SortOldestFirst(SubSeq(activities, 1, Len(activities) - 1)))

RECURSIVE SortNewestFirst(_)
\* filtered.sort(key=lambda x: x['timestamp'], reverse=True): a stable sort
\* on the ISO strings, whose order is the order of the instants
SortNewestFirst(activities) ==
    IF activities = <<>> THEN <<>>
    ELSE InsertNewestFirst(activities[Len(activities)],
                           SortNewestFirst(SubSeq(activities, 1, Len(activities) - 1)))

ToDicts(rows) == [i \in 1..Len(rows) |-> to_dict(rows[i])]

\* ActivityLoggerService.get_activities
GetActivities(f, limit, ok) ==
    /\ IF ok
       THEN LET hits == SelectIdx(db, { i \in 1..Len(db) :
                                         /\ MatchesFields(db[i], f)
                                         /\ After(db[i].timestamp, f.since) }, 1)
            IN  \E activities \in OrderedBy(hits, Descending(hits)) :
                  ret' = [op |-> "get_activities", tier |-> "db", filter |-> f,
                          limit |-> limit, val |-> ToDicts(Take(activities, limit))]
       ELSE LET filtered == SelectIdx(cache, { i \in 1..Len(cache) :
                                         /\ MatchesFields(cache[i], f)
                                         /\ After(fromisoformat(cache[i].timestamp), f.since) }, 1)
            IN  ret' = [op |-> "get_activities", tier |-> "cache", filter |-> f,
                        limit |-> limit, val |-> Take(SortNewestFirst(filtered), limit)]
    /\ UNCHANGED <<db, cache, now, uuid, beyond_sql>>

\* ActivityLoggerService.get_latest_activities
GetLatestActivities(since, limit, ok) ==
    /\ IF ok
       THEN LET hits == SelectIdx(db, { i \in 1..Len(db) : After(db[i].timestamp, since) }, 1)
            IN  \E activities \in OrderedBy(hits, Descending(hits)) :
                  ret' = [op |-> "get_latest_activities", tier |-> "db", since |-> since,
                          limit |-> limit, val |-> ToDicts(Take(activities, limit))]
       ELSE LET hits == SelectIdx(cache, { i \in 1..Len(cache) :
                                     After(fromisoformat(cache[i].timestamp), since) }, 1)
            IN  ret' = [op |-> "get_latest_activities", tier |-> "cache", since |-> since,
                        limit |-> limit, val |-> Take(hits, limit)]
    /\ UNCHANGED <<db, cache, now, uuid, beyond_sql>>

\* GET / : get_activity_logs
RouteGetActivityLogs(f, limit, offset, ok) ==
    /\ limit >= 1
    /\ offset >= 0
    /\ IF ok
       THEN LET hits == SelectIdx(db, { i \in 1..Len(db) :
                                         /\ MatchesFields(db[i], f)
                                         /\ NotBefore(db[i].timestamp, f.since) }, 1)
            IN  \E activities \in OrderedBy(hits, Descending(hits)) :
                  ret' = [op |-> "get_activity_logs", status |-> 200, filter |-> f,
                          limit |-> limit, offset |-> offset,
                          val |-> Take(SubSeq(activities, offset + 1, Len(activities)), limit)]
       ELSE ret' = [op |-> "get_activity_logs", status |-> 500]
    /\ UNCHANGED <<db, cache, now, uuid, beyond_sql>>

\* GET /latest : the route's get_latest_activities
RouteGetLatestActivities(since, limit, ok) ==
    /\ limit >= 1
    /\ IF ok
       THEN LET hits == SelectIdx(db, { i \in 1..Len(db) : After(db[i].timestamp, since) }, 1)
            IN  \E activities \in OrderedBy(hits, Descending(hits)) :
                  ret' = [op |-> "route_get_latest_activities", status |-> 200,
                          since |-> since, limit |-> limit, val |-> Take(activities, limit)]
       ELSE ret' = [op |-> "route_get_latest_activities", status |-> 500]
    /\ UNCHANGED <<db, cache, now, uuid, beyond_sql>>

----------------------------------------------------------------------------
(* The Firestore-backed logger service *)

\* int(timestamp.timestamp()): whole seconds; the clock is read twice a second
int_timestamp(t) == t \div 2

\* the dicts of a collection's documents, in some order
SeqOf(S) == CHOOSE s \in [1..Cardinality(S) -> S] : Range(s) = S

\* firestore_doc_to_dict: the document's fields and its id
firestore_doc_to_dict(collection, doc_id) == SetKey(collection[doc_id], "id", doc_id)

\* FirestoreService.create: what is written under doc_id, stamped with the
\* reading t of the clock
create(data, t) ==
    SetKey(SetKey(data, "created_at", isoformat(t)), "updated_at", isoformat(t))

\* doc_ref.set(data): the document doc_id becomes data, whether or not the
\* collection had a document of that id
set(collection, doc_id, data) == SetKey(collection, doc_id, data)

\* ActivityLoggerServiceFirestore.log_activity; t2 is the reading create()
\* takes, ok: Firestore accepts the write
FsLogActivity(req, t2, ok) ==
    /\ Appended < MaxAppends
    /\ t2 \in now..Min2(now + 1, MaxClock)
    /\ LET timestamp == now
           activity_hash == generate_hash(
               hash_input(req.agent_id, req.action_type, isoformat(timestamp), req.message))
           activity_id == "activity-" \o ToString(int_timestamp(timestamp))
                              \o "-" \o activity_hash
           activity_record ==
               [timestamp |-> isoformat(timestamp),
                agent_id |-> req.agent_id, action_type |-> req.action_type,
                severity |-> req.severity, message |-> req.message,
                data |-> FillDefaults(req.data, req.action_type),
                user_id |-> None, session_id |-> None,
                hash |-> activity_hash]
       IN  IF ok
           THEN LET data == create(activity_record, t2)
                    created == SetKey(data, "id", activity_id)
                IN  /\ fs' = set(fs, activity_id, data)
                    /\ fcache' = update_cache(fcache, created)
                    /\ ret' = [op |-> "fs_log_activity", tier |-> "db", val |-> created]
           ELSE LET fallback == SetKey(create(activity_record, timestamp),
                                       "id", activity_id)
                IN  /\ fs' = fs
                    /\ fcache' = update_cache(fcache, fallback)
                    /\ ret' = [op |-> "fs_log_activity", tier |-> "cache", val |-> fallback]
    /\ now' = t2
    /\ UNCHANGED beyond_firestore

\* ActivityLoggerServiceFirestore.verify_integrity(activity_id)
FsVerifyIntegrity(activity_id, ok) ==
    /\ ret' = [op |-> "fs_verify_integrity", activity_id |-> activity_id,
               val |-> IF ok /\ Has(fs, activity_id)
                       THEN LET activity == firestore_doc_to_dict(fs, activity_id)
                            IN  activity.hash = expected_hash(activity, activity.timestamp)
                       ELSE FALSE]
    /\ UNCHANGED <<now, fs, fcache, beyond_firestore>>

\* a record passes the filters f: the equality filters that are given and
\* timestamp > since
Keep(a, f) ==
    /\ MatchesFields(a, f)
    /\ After(fromisoformat(a.timestamp), f.since)

\* FirestoreService.get_all(filters, order_by='-timestamp', limit): the
\* answers the collection can give, f holding the filters
get_all(collection, f, limit) ==
    LET docs == SeqOf(DOMAIN collection)
        dicts == [i \in 1..Len(docs) |-> firestore_doc_to_dict(collection, docs[i])]
        hits == SelectIdx(dicts, { i \in 1..Len(dicts) : Keep(dicts[i], f) }, 1)
        newest_first == [i \in 1..Len(hits) |-> 0 - fromisoformat(hits[i].timestamp)]
    IN  { IF limit # 0 THEN Take(activities, limit) ELSE activities :
            activities \in OrderedBy(hits, newest_first) }

\* ActivityLoggerServiceFirestore.get_activities
FsGetActivities(f, limit, ok) ==
    /\ IF ok
       THEN \E activities \in get_all(fs, f, limit) :
              ret' = [op |-> "fs_get_activities", tier |-> "db", filter |-> f,
                      limit |-> limit, val |-> activities]
       ELSE LET filtered == SelectIdx(fcache, { i \in 1..Len(fcache) :
                                                  Keep(fcache[i], f) }, 1)
            IN  ret' = [op |-> "fs_get_activities", tier |-> "cache", filter |-> f,
                        limit |-> limit, val |-> Take(SortNewestFirst(filtered), limit)]
    /\ UNCHANGED <<now, fs, fcache, beyond_firestore>>

\* ActivityLoggerServiceFirestore.get_latest_activities
FsGetLatestActivities(since, limit, ok) ==
    /\ LET f == Filter(None, None, None, since)
       IN  IF ok
           THEN \E activities \in get_all(fs, f, limit) :
                  ret' = [op |-> "fs_get_latest_activities", tier |-> "db",
                          since |-> since, limit |-> limit, val |-> activities]
           ELSE LET hits == SelectIdx(fcache, { i \in 1..Len(fcache) :
                                                  Keep(fcache[i], f) }, 1)
                IN  ret' = [op |-> "fs_get_latest_activities", tier |-> "cache",
                            since |-> since, limit |-> limit, val |-> Take(hits, limit)]
    /\ UNCHANGED <<now, fs, fcache, beyond_firestore>>

QueryRequests ==
    { Request("a1", "decision", "m", "info", EmptyDict),
      Request("a2", "error", "m", "critical", [execution_time |-> 4]) }

QueryOps ==
    {"get_activities", "get_latest_activities", "get_activity_logs",
     "route_get_latest_activities", "fs_get_activities", "fs_get_latest_activities"}

\* A query only reads, so what it returns does not depend on the queries
\* made before it: the runs of SpecQuery put each query to a ledger as the
\* last append, purge or tick left it.  (The states reached are those of
\* runs that also chain queries.)
Settled == ret.op \notin QueryOps

\* The two logger services keep separate stores and caches and share only the
\* clock, so the runs of SpecQuery append through one of them.
NextQuery ==
    \/ Tick
    \/ fcache = <<>> /\ \E req \in QueryRequests, ok \in BOOLEAN :
                            Appended < MaxAppends /\ LogActivity(req, ok)
    \/ fcache = <<>> /\ \E req \in QueryRequests : CreateActivityLog(req, now, TRUE)
    \/ Settled /\ \E f \in Filters, limit \in 1..MaxLimit, ok \in BOOLEAN :
                     GetActivities(f, limit, ok)
    \/ Settled /\ \E since \in Sinces \ {<<>>}, limit \in 1..MaxLimit, ok \in BOOLEAN :
                     GetLatestActivities(since, limit, ok)
    \/ Settled /\ \E f \in Filters, limit \in 1..MaxLimit, offset \in 0..1 :
                     RouteGetActivityLogs(f, limit, offset, TRUE)
    \/ Settled /\ \E since \in Sinces \ {<<>>}, limit \in 1..MaxLimit :
                     RouteGetLatestActivities(since, limit, TRUE)
    \/ Appended = Len(fcache) /\ \E req \in QueryRequests, ok \in BOOLEAN :
                                    FsLogActivity(req, now, ok)
    \/ Settled /\ \E f \in Filters, limit \in 1..MaxLimit, ok \in BOOLEAN :
                     FsGetActivities(f, limit, ok)

SpecQuery == Init /\ [][NextQuery]_vars

\* the ledger with one out-of-band alteration of a stored row
TamperRequests == { Request("a1", "decision", "m", "info", EmptyDict) }

NextTamper ==
    \/ Tick
    \/ \E req \in TamperRequests, ok \in BOOLEAN :
          Appended < MaxAppends /\ LogActivity(req, ok)
    \/ \E req \in TamperRequests, t2 \in 0..MaxClock : CreateActivityLog(req, t2, TRUE)
    \/ \E i \in 1..MaxAppends, field \in HashedFields \cup UnhashedFields : Tamper(i, field)
    \/ \E ok \in BOOLEAN : VerifyIntegrity(ok)
    \/ \E ok \in BOOLEAN : RouteVerifyIntegrity(ok)

SpecTamper == Init /\ [][NextTamper]_vars

\* the Firestore-backed ledger: appends (two of them alike but for the
\* severity), per-record verification and queries
FsRequests ==
    { Request("a1", "decision", "m", "info", EmptyDict),
      Request("a1", "decision", "m", "critical", EmptyDict),
      Request("a2", "error", "m", "critical", [execution_time |-> 4]),
      Request(None, "decision", "m", "info", EmptyDict) }

NextFs ==
    \/ Tick
    \/ \E req \in FsRequests, t2 \in 0..MaxClock, ok \in BOOLEAN :
          FsLogActivity(req, t2, ok)
    \/ \E activity_id \in DOMAIN fs \cup {"activity-0-absent"}, ok \in BOOLEAN :
          FsVerifyIntegrity(activity_id, ok)
    \/ Settled /\ \E f \in Filters, limit \in 1..MaxLimit, ok \in BOOLEAN :
                     FsGetActivities(f, limit, ok)
    \/ Settled /\ \E since \in Sinces \ {<<>>}, limit \in 1..MaxLimit, ok \in BOOLEAN :
                     FsGetLatestActivities(since, limit, ok)

SpecFs == Init /\ [][NextFs]_vars

----------------------------------------------------------------------------
(* The anomaly detection engine: app/services/anomaly_detection.py *)

\* AnomalyDetectionService(): the constructor's default
threshold_multiplier == 2

\* anomaly_history keeps its last 1000 records
history_cap == 1000

Abs(x) == IF x < 0 THEN 0 - x ELSE x

\* a metric value: a number (in hundredths) or something else
Num(v) == [isinstance |-> "float", v |-> v]

NotANumber == [isinstance |-> "str", v |-> 0]

Metric(name, value) == [name |-> name, value |-> value]

\* the metrics argument: None, a dict (its items in insertion order), or a
\* list, which is no dict
NoMetrics == [type |-> "NoneType"]

Dict(items) == [type |-> "dict", items |-> items]

List(items) == [type |-> "list", items |-> items]

\* _load_baseline_metrics
load_baseline_metrics ==
    [name \in {"cpu_usage", "memory_usage", "response_time", "error_rate", "request_count"} |->
        CASE name = "cpu_usage" -> [mean |-> 4500, std |-> 1500]
          [] name = "memory_usage" -> [mean |-> 6000, std |-> 2000]
          [] name = "response_time" -> [mean |-> 25000, std |-> 5000]
          [] name = "error_rate" -> [mean |-> 2, std |-> 1]
          [] name = "request_count" -> [mean |-> 100000, std |-> 20000]]

\* _is_anomalous, over the baselines `baselines`
is_anomalous(baselines, metric_name, value) ==
    IF ~Has(baselines, metric_name)
    THEN FALSE
    ELSE LET baseline == baselines[metric_name]
             threshold == baseline.std * threshold_multiplier
         IN  Abs(value - baseline.mean) > threshold

\* _get_expected_range
get_expected_range(baselines, metric_name) ==
    IF ~Has(baselines, metric_name)
    THEN [min |-> 0, max |-> 10000]
    ELSE LET baseline == baselines[metric_name]
             threshold == baseline.std * threshold_multiplier
         IN  [min |-> baseline.mean - threshold, max |-> baseline.mean + threshold]

\* _calculate_severity that takes a deviation of exactly 3 std for high
calculate_severity_inclusive(baselines, metric_name, value) ==
    IF ~Has(baselines, metric_name)
    THEN "low"
    ELSE LET mean == baselines[metric_name].mean
             std == baselines[metric_name].std
             DeviationOver(k) == std > 0 /\ Abs(value - mean) > k * std
         IN  IF DeviationOver(4) THEN "critical"
             ELSE IF std > 0 /\ Abs(value - mean) >= 3 * std THEN "high"
             ELSE IF DeviationOver(2) THEN "medium"
             ELSE "low"

\* _calculate_severity: deviation = abs(value - mean) / std if std > 0 else 0,
\* and deviation > k is abs(value - mean) > k * std
calculate_severity(baselines, metric_name, value) ==
    IF ~Has(baselines, metric_name)
    THEN "low"
    ELSE LET mean == baselines[metric_name].mean
             std == baselines[metric_name].std
             DeviationOver(k) == std > 0 /\ Abs(value - mean) > k * std
         IN  IF DeviationOver(4) THEN "critical"
             ELSE IF DeviationOver(3) THEN "high"
             ELSE IF DeviationOver(2) THEN "medium"
             ELSE "low"

\* f"{datetime.timestamp():.0f}": the reading in whole seconds, two readings
\* to the second, a half rounded to the even second
timestamp_0f(t) ==
    LET s == t \div 2
    IN  IF t % 2 = 0 \/ s % 2 = 0 THEN s ELSE s + 1

\* _detect_statistical_anomalies over the items of a dict: one record per
\* numeric item that _is_anomalous, in the order of the items
RECURSIVE detect_statistical_anomalies(_, _)
detect_statistical_anomalies(baselines, items) ==
    IF items = <<>>
    THEN <<>>
    ELSE LET metric_name == Head(items).name
             value == Head(items).value
             rest == detect_statistical_anomalies(baselines, Tail(items))
         IN  IF value.isinstance = "float" /\ is_anomalous(baselines, metric_name, value.v)
             THEN <<[id |-> "STAT-" \o ToString(timestamp_0f(now)),
                     type |-> "statistical_outlier",
                     metric |-> metric_name,
                     value |-> value.v,
                     expected_range |-> get_expected_range(baselines, metric_name),
                     severity |-> calculate_severity(baselines, metric_name, value.v),
                     confidence |-> 85,
                     timestamp |-> isoformat(now),
                     detection_method |-> "statistical_analysis",
                     description |-> "Metric " \o metric_name \o " value "
                                     \o ToString(value.v)
                                     \o " deviates significantly from baseline"]>> \o rest
             ELSE rest

\* `await activity_logger.get_activities(...)`: get_activities is a plain
\* def that returns a list, and awaiting a list raises this TypeError
AwaitOfList == "object list can't be used in 'await' expression"

\* 'list' object has no attribute 'items'
ItemsOfList == "'list' object has no attribute 'items'"

\* _gather_system_metrics: the await raises once get_activities has
\* returned; the handler writes the error to the service's log
\* (self.log_error) and returns the metrics of an empty ledger
gather_system_metrics ==
    [metrics |-> Dict(<<Metric("activity_count", Num(0)), Metric("error_rate", Num(0)),
                        Metric("avg_execution_time", Num(0)), Metric("active_agents", Num(0))>>),
     errors |-> <<"Error gathering system metrics: " \o AwaitOfList>>]

\* _detect_activity_pattern_anomalies: the await raises before any record is
\* looked at, the handler writes the error to the log, and the empty list
\* is returned
detect_activity_pattern_anomalies ==
    [anomalies |-> <<>>,
     errors |-> <<"Error detecting activity pattern anomalies: " \o AwaitOfList>>]

\* _detect_behavioral_anomalies: likewise
detect_behavioral_anomalies ==
    [anomalies |-> <<>>,
     errors |-> <<"Error detecting behavioral anomalies: " \o AwaitOfList>>]

\* _detect_correlation_anomalies: likewise
detect_correlation_anomalies ==
    [anomalies |-> <<>>,
     errors |-> <<"Error detecting correlation anomalies: " \o AwaitOfList>>]

\* _learn_baseline_patterns: the await raises and the handler logs it;
\* pattern_cache is left as it was
learn_baseline_patterns(patterns) == patterns

\* a count of the critical and the high anomalies only
count_by_severity_above_medium(anomalies) ==
    [s \in {"critical", "high", "medium", "low"} |->
        Cardinality({ i \in 1..Len(anomalies) :
                        anomalies[i].severity = s /\ s \in {"critical", "high"} })]

\* _count_by_severity
count_by_severity(anomalies) ==
    [s \in {"critical", "high", "medium", "low"} |->
        Cardinality({ i \in 1..Len(anomalies) : anomalies[i].severity = s })]

\* statistics.mean of the confidences, as the fraction sum / count
avg_confidence(anomalies) ==
    IF anomalies = <<>>
    THEN <<0, 1>>
    ELSE <<Sum([i \in 1..Len(anomalies) |-> anomalies[i].confidence]), Len(anomalies)>>

Methods == <<"statistical", "pattern", "behavioral", "correlation">>

\* a result that lists no method
ResultWithoutMethods(anomalies) ==
    [anomalies |-> anomalies,
     total_anomalies |-> Len(anomalies),
     severity_breakdown |-> count_by_severity(anomalies),
     methods_used |-> <<>>,
     avg_confidence |-> avg_confidence(anomalies),
     timestamp |-> isoformat(now)]

\* the dict detect_anomalies returns when the pass went through
Result(anomalies) ==
    [anomalies |-> anomalies,
     total_anomalies |-> Len(anomalies),
     severity_breakdown |-> count_by_severity(anomalies),
     methods_used |-> Methods,
     avg_confidence |-> avg_confidence(anomalies),
     timestamp |-> isoformat(now)]

\* the dict it returns from its exception handler
ErrorResult(e) ==
    [anomalies |-> <<>>,
     total_anomalies |-> 0,
     severity_breakdown |-> count_by_severity(<<>>),
     methods_used |-> <<>>,
     avg_confidence |-> <<0, 1>>,
     error |-> e,
     timestamp |-> isoformat(now)]

\* the log_activity call that reports what a pass found
AnalysisRequest(anomalies, metrics) ==
    Request("anomaly-detector", "analysis",
            "Detected " \o ToString(Len(anomalies)) \o " anomalies across "
                \o ToString(Len(metrics.items)) \o " metrics",
            IF \E i \in 1..Len(anomalies) : anomalies[i].severity \in {"critical", "high"}
            THEN "high" ELSE "medium",
            [anomalies_detected |-> Len(anomalies),
             severity_breakdown |-> count_by_severity(anomalies),
             detection_methods |-> Methods,
             metrics_analyzed |-> [i \in 1..Len(metrics.items) |-> metrics.items[i].name],
             metadata |-> [context |-> "anomaly_detection", confidence |-> 92,
                           impact_score |-> Min2(Len(anomalies) * 2, 10) * 100]])

\* ActivityLoggerService.log_error, as a log_activity call
ErrorRequest(agent_id, error_type, error_message, error_details) ==
    Request(agent_id, "error",
            "Error: " \o error_type \o " - " \o error_message,
            "critical",
            [error_type |-> error_type,
             error_message |-> error_message,
             error_details |-> error_details,
             metadata |-> [context |-> "error_handling", confidence |-> 10,
                           impact_score |-> 90]])

\* the store that keeps the first 1000 records
stored_oldest(history, anomalies) ==
    LET h == history \o anomalies
    IN  IF Len(h) > history_cap THEN SubSeq(h, 1, history_cap) ELSE h

\* the store that files a batch before the newest record kept
stored_before_newest(history, anomalies) ==
    LET h == IF history = <<>> THEN anomalies
             ELSE SubSeq(history, 1, Len(history) - 1) \o anomalies
                  \o <<history[Len(history)]>>
    IN  IF Len(h) > history_cap THEN SubSeq(h, Len(h) - history_cap + 1, Len(h)) ELSE h

\* the anomalies appended to anomaly_history, and the history cut to its
\* last 1000 records
stored(history, anomalies) ==
    LET h == history \o anomalies
    IN  IF Len(h) > history_cap THEN SubSeq(h, Len(h) - history_cap + 1, Len(h)) ELSE h

\* the passes in progress
InProgress == { p \in Passes : passes[p].pc # "idle" }

\* A pass is a coroutine: it runs until it awaits, and while it waits the
\* other passes and the other callers run.  Each action below is one awaited
\* call together with the code up to the next await.

\* detect_anomalies(metrics) is called: the metrics are taken, or gathered
\* from the ledger when None is given
DetectStart(p, metrics) ==
    /\ passes[p].pc = "idle"
    /\ passes' = [passes EXCEPT ![p] =
                    [pc |-> "statistical",
                     arg |-> metrics,
                     metrics |-> IF metrics.type = "NoneType"
                                 THEN gather_system_metrics.metrics ELSE metrics,
                     anomalies |-> <<>>,
                     log |-> IF metrics.type = "NoneType"
                             THEN gather_system_metrics.errors ELSE <<>>,
                     began |-> InProgress]]
    /\ UNCHANGED <<db, cache, now, uuid, ret, tamper, fs, fcache,
                   baseline_metrics, pattern_cache, anomaly_history>>

\* the pass returns `result`, having stored `anomalies`; `log` is what it
\* wrote to the service's log
DetectReturn(p, anomalies, log, result) ==
    /\ anomaly_history' = stored(anomaly_history, anomalies)
    /\ passes' = [passes EXCEPT ![p] = Idle]
    /\ ret' = [op |-> "detect_anomalies", pass |-> p, arg |-> passes[p].arg,
               metrics |-> passes[p].metrics, began |-> passes[p].began,
               log |-> log, raised |-> FALSE, val |-> result]

\* 1. _detect_statistical_anomalies(metrics); metrics.items() raises when the
\* metrics are no dict, and the pass goes to its handler
DetectStatistical(p) ==
    /\ passes[p].pc = "statistical"
    /\ IF passes[p].metrics.type = "dict"
       THEN passes' = [passes EXCEPT ![p].pc = "pattern",
                                     ![p].anomalies =
                                        @ \o detect_statistical_anomalies(
                                                baseline_metrics, passes[p].metrics.items)]
       ELSE passes' = [passes EXCEPT ![p].pc = "except"]
    /\ UNCHANGED <<db, cache, now, uuid, ret, tamper, fs, fcache,
                   baseline_metrics, pattern_cache, anomaly_history>>

\* 2. _detect_activity_pattern_anomalies()
DetectPattern(p) ==
    /\ passes[p].pc = "pattern"
    /\ passes' = [passes EXCEPT ![p].pc = "behavioral",
                                ![p].anomalies = @ \o detect_activity_pattern_anomalies.anomalies,
                                ![p].log = @ \o detect_activity_pattern_anomalies.errors]
    /\ UNCHANGED <<db, cache, now, uuid, ret, tamper, fs, fcache,
                   baseline_metrics, pattern_cache, anomaly_history>>

\* 3. _detect_behavioral_anomalies()
DetectBehavioral(p) ==
    /\ passes[p].pc = "behavioral"
    /\ passes' = [passes EXCEPT ![p].pc = "correlation",
                                ![p].anomalies = @ \o detect_behavioral_anomalies.anomalies,
                                ![p].log = @ \o detect_behavioral_anomalies.errors]
    /\ UNCHANGED <<db, cache, now, uuid, ret, tamper, fs, fcache,
                   baseline_metrics, pattern_cache, anomaly_history>>

\* 4. _detect_correlation_anomalies(); with nothing found the pass stores
\* nothing and returns, otherwise it goes on to log what it found
DetectCorrelation(p) ==
    /\ passes[p].pc = "correlation"
    /\ LET anomalies == passes[p].anomalies \o detect_correlation_anomalies.anomalies
           log == passes[p].log \o detect_correlation_anomalies.errors
       IN  IF anomalies = <<>>
           THEN /\ DetectReturn(p, anomalies, log, Result(anomalies))
                /\ UNCHANGED <<db, cache>>
           ELSE /\ passes' = [passes EXCEPT ![p].pc = "log", ![p].anomalies = anomalies,
                                            ![p].log = log]
                /\ UNCHANGED <<db, cache, ret, anomaly_history>>
    /\ UNCHANGED <<now, uuid, tamper, fs, fcache, baseline_metrics, pattern_cache>>

\* the findings are logged to the ledger, stored in the history and returned
DetectLog(p, ok) ==
    /\ passes[p].pc = "log"
    /\ LET anomalies == passes[p].anomalies
           out == log_activity(db, cache, AnalysisRequest(anomalies, passes[p].metrics), now, ok)
       IN  /\ db' = out.db
           /\ cache' = out.cache
           /\ DetectReturn(p, anomalies, passes[p].log, Result(anomalies))
    /\ UNCHANGED <<now, uuid, tamper, fs, fcache, baseline_metrics, pattern_cache>>

\* except Exception: the error goes to the ledger through log_error, and the
\* error result is returned; nothing is stored
DetectExcept(p, ok) ==
    /\ passes[p].pc = "except"
    /\ LET e == ItemsOfList
           out == log_activity(db, cache,
                      ErrorRequest("anomaly-detector", "AnomalyDetectionError", e,
                                   [metrics_count |-> Len(passes[p].metrics.items),
                                    function |-> "detect_anomalies"]),
                      now, ok)
       IN  /\ db' = out.db
           /\ cache' = out.cache
           /\ passes' = [passes EXCEPT ![p] = Idle]
           /\ ret' = [op |-> "detect_anomalies", pass |-> p, arg |-> passes[p].arg,
                      metrics |-> passes[p].metrics, began |-> passes[p].began,
                      log |-> passes[p].log \o <<"Error detecting anomalies: " \o e>>,
                      raised |-> FALSE, val |-> ErrorResult(e)]
    /\ UNCHANGED <<now, uuid, tamper, fs, fcache,
                   baseline_metrics, pattern_cache, anomaly_history>>

\* the log_activity call that reports the initialization
InitializationRequest ==
    Request("anomaly-detector", "initialization",
            "Anomaly detection service initialized with AI-powered pattern recognition",
            "info",
            [baseline_metrics_count |-> Cardinality(DOMAIN load_baseline_metrics),
             learning_enabled |-> TRUE,
             detection_methods |-> <<"statistical_outlier", "pattern_analysis",
                                     "behavioral_anomaly">>,
             metadata |-> [context |-> "service_initialization",
                           confidence |-> 100, impact_score |-> 700]])

\* AnomalyDetectionService.initialize: the baselines are loaded, the patterns
\* learned, and the initialization logged
Initialize(ok) ==
    /\ Appended < MaxAppends
    /\ baseline_metrics' = load_baseline_metrics
    /\ pattern_cache' = learn_baseline_patterns(pattern_cache)
    /\ LET out == log_activity(db, cache, InitializationRequest, now, ok)
       IN  /\ db' = out.db
           /\ cache' = out.cache
           /\ ret' = [op |-> "initialize", val |-> TRUE]
    /\ UNCHANGED <<now, uuid, tamper, fs, fcache, anomaly_history, passes>>

\* the log_activity calls made while the engine runs
DetectRequests ==
    { Request("a1", "decision", "m", "info", EmptyDict),
      Request("a2", "error", "m", "critical", [execution_time |-> 4]) }

\* the metrics detect_anomalies is called with: None; cpu_usage at 95, at
\* exactly 2, 3 and 4 deviations from its mean and just beyond; two metrics
\* of which one or both are outliers; a value that is no number; a metric
\* that has no baseline; a list in place of the dict
MetricsInputs ==
    { NoMetrics,
      Dict(<<Metric("cpu_usage", Num(9500))>>),
      Dict(<<Metric("cpu_usage", Num(7500))>>),
      Dict(<<Metric("cpu_usage", Num(9000))>>),
      Dict(<<Metric("cpu_usage", Num(10500))>>),
      Dict(<<Metric("cpu_usage", Num(10501))>>),
      Dict(<<Metric("cpu_usage", Num(9500)), Metric("memory_usage", Num(6000))>>),
      Dict(<<Metric("error_rate", Num(7)), Metric("cpu_usage", Num(0))>>),
      Dict(<<Metric("cpu_usage", NotANumber)>>),
      Dict(<<Metric("queue_depth", Num(99900))>>),
      List(<<"cpu_usage">>) }

\* the steps of the pass p
DetectSteps(p) ==
    \/ DetectStatistical(p)
    \/ DetectPattern(p)
    \/ DetectBehavioral(p)
    \/ DetectCorrelation(p)
    \/ \E ok \in BOOLEAN : DetectLog(p, ok)
    \/ \E ok \in BOOLEAN : DetectExcept(p, ok)

\* The engine over the SQL ledger, one detect_anomalies() call at a time.
\* No call a pass awaits suspends it (the logger's methods do their work
\* without awaiting anything), so a pass runs from its start to its return
\* with no other call between.
NextDetect ==
    \/ InProgress = {} /\ Tick
    \/ \E req \in DetectRequests, ok \in BOOLEAN :
          InProgress = {} /\ Appended < MaxAppends /\ LogActivity(req, ok)
    \/ \E ok \in BOOLEAN : InProgress = {} /\ Initialize(ok)
    \/ \E ok \in BOOLEAN : InProgress = {} /\ GetActivityStats(ok)
    \/ \E metrics \in MetricsInputs :
          /\ InProgress = {}
          /\ Appended < MaxAppends
          /\ DetectStart("p1", metrics)
    \/ \E p \in Passes : DetectSteps(p)

SpecDetect == Init /\ [][NextDetect]_vars

\* the metrics of passes that overlap: an outlier of one metric, outliers of
\* two others, and a list
OverlapInputs ==
    { Dict(<<Metric("cpu_usage", Num(9500))>>),
      Dict(<<Metric("memory_usage", Num(0)), Metric("error_rate", Num(7))>>),
      List(<<"cpu_usage">>) }

\* Overlapping passes: every await of a pass taken as a point where it may be
\* suspended, so that a second detect_anomalies() call may begin, run and
\* return while the first waits.
NextOverlap ==
    \/ Tick
    \/ \E ok \in BOOLEAN : InProgress = {} /\ Initialize(ok)
    \/ \E p \in Passes, metrics \in OverlapInputs :
          /\ Appended < MaxAppends
          /\ p = "p2" => passes["p1"].pc # "idle"
          /\ DetectStart(p, metrics)
    \/ \E p \in Passes : DetectSteps(p)

SpecOverlap == Init /\ [][NextOverlap]_vars

\* The engine with its history two records short of the cap: initialize()
\* has run and then, all at the clock reading 0, one pass for each record of
\* the history, the i-th over {cpu_usage: 106 + i / 100}.  Every pass has
\* logged the same analysis record: the table took the first, the cache
\* holds the last cache_limit of them.
PrefilledLen == history_cap - 2

PrefillMetrics(i) == Dict(<<Metric("cpu_usage", Num(10600 + i))>>)

InitHistory ==
    /\ now = 0
    /\ uuid = 0
    /\ ret = [op |-> "init"]
    /\ tamper = <<>>
    /\ fs = EmptyDict
    /\ fcache = <<>>
    /\ baseline_metrics = load_baseline_metrics
    /\ pattern_cache = EmptyDict
    /\ anomaly_history =
          [i \in 1..PrefilledLen |->
              detect_statistical_anomalies(load_baseline_metrics, PrefillMetrics(i).items)[1]]
    /\ passes = [p \in Passes |-> Idle]
    /\ LET initialized == log_activity(<<>>, <<>>, InitializationRequest, 0, TRUE)
           logged == log_activity(initialized.db, initialized.cache,
                                  AnalysisRequest(<<anomaly_history[1]>>, PrefillMetrics(1)),
                                  0, TRUE)
       IN  /\ db = logged.db
           /\ cache = [i \in 1..cache_limit |-> logged.val]

\* the metrics of the passes that follow: one outlier, three outliers, none
\* given
HistoryInputs ==
    { Dict(<<Metric("cpu_usage", Num(9500))>>),
      Dict(<<Metric("cpu_usage", Num(9500)), Metric("memory_usage", Num(0)),
             Metric("error_rate", Num(7))>>),
      NoMetrics }

\* passes over well-formed metrics, one at a time, until the history is full
NextHistory ==
    \/ Tick
    \/ \E p \in Passes, metrics \in HistoryInputs :
          /\ InProgress = {}
          /\ Len(anomaly_history) < history_cap
          /\ DetectStart(p, metrics)
    \/ \E p \in Passes : DetectStatistical(p)
    \/ \E p \in Passes : DetectPattern(p)
    \/ \E p \in Passes : DetectBehavioral(p)
    \/ \E p \in Passes : DetectCorrelation(p)
    \/ \E p \in Passes, ok \in BOOLEAN : DetectLog(p, ok)

SpecHistory == InitHistory /\ [][NextHistory]_vars

----------------------------------------------------------------------------
(* Claims about the SQL ledger *)

AppendOps == {"log_activity", "create_activity_log"}

VerifyOps == {"verify_integrity", "route_verify_integrity"}

Returned == "val" \in DOMAIN ret

\* the ids the ledger holds, durable or cached
LedgerIds == { db[i].id : i \in 1..Len(db) } \cup { cache[i].id : i \in 1..Len(cache) }

\* C1: every stored record's hash is the hash of its own stored fields
\* (under the ISO or the str() rendering of its timestamp, whichever the
\* verifier uses), for rows made by log_activity and by the REST create
\* route alike, and every integrity verification reports 'verified' with
\* verified count = total.
C1_StoredHashMatchesFields ==
    /\ \A i \in 1..Len(db) :
          \/ db[i].hash = expected_hash(db[i], isoformat(db[i].timestamp))
          \/ db[i].hash = expected_hash(db[i], str_datetime(db[i].timestamp))
    /\ \A i \in 1..Len(cache) :
          cache[i].hash = expected_hash(cache[i], cache[i].timestamp)
    /\ (ret.op \in VerifyOps /\ Returned) =>
          /\ ret.val.status = "verified"
          /\ ret.val.verified_records = ret.val.total_records

\* C3: every append returns a record whose id no record of the ledger had
\* before, and adds exactly one record to the ledger, also when it receives
\* the clock reading and the agent_id, action_type and message of an
\* earlier append.
C3_AppendsGetDistinctIds ==
    [][(ret'.op = "log_activity" /\ <<db, cache>>' # <<db, cache>>) =>
          /\ ret'.val.id \notin LedgerIds
          /\ Cardinality(LedgerIds') = Cardinality(LedgerIds) + 1]_vars

\* C6: two consecutive verify_integrity calls, nothing appended, purged or
\* altered between them, return the same digest, counts, status and invalid
\* list.
C6_VerifyTwiceSameReport ==
    [][(ret.op = "verify_integrity" /\ ret'.op = "verify_integrity") =>
          ret'.val = ret.val]_vars

\* C7: the digest verify_integrity returns is the hash of the per-record
\* hashes concatenated in ascending timestamp order, and depends on the set
\* of stored records only: every arrangement of the stored rows that is
\* ascending in timestamp yields it.
C7_DigestIsFunctionOfRecordSet ==
    (ret.op = "verify_integrity" /\ ret.tier = "db") =>
        \A q \in OrderedBy(db, Ascending(db)) :
            ret.val.system_hash = generate_hash(Join(Hashes(q)))

\* the row named by `tamper` is still in the table
TamperedStored == tamper # <<>> /\ \E i \in 1..Len(db) : db[i].id = tamper[1].id

\* a verification report lists the altered row among its invalid ids, or
\* more invalid rows than the preview holds
ListsTampered(listed) ==
    /\ ret.val.status = "compromised"
    /\ tamper[1].id \in listed \/ ret.val.invalid_records > PreviewCap

ServiceVerifiedAfter(fields) ==
    /\ ret.op = "verify_integrity" /\ ret.tier = "db"
    /\ TamperedStored /\ tamper[1].field \in fields /\ tamper[1].verified_before

RouteVerifiedAfter(fields) ==
    /\ ret.op = "route_verify_integrity" /\ ret.status = 200
    /\ TamperedStored /\ tamper[1].field \in fields /\ tamper[1].route_verified_before

RouteListed == { ret.val.invalid_hashes[i].id : i \in 1..Len(ret.val.invalid_hashes) }

\* C2 (as claimed): after any one field of a stored row that verified --
\* agent_id, action_type, timestamp, message, severity, data, user_id,
\* session_id or the hash -- is altered in the table, a verification read
\* from the table lists the row's id as invalid and reports compromised.
C2_AnyFieldTamperDetected ==
    /\ ServiceVerifiedAfter(HashedFields \cup UnhashedFields)
          => ListsTampered(Range(ret.val.invalid_hashes))
    /\ RouteVerifiedAfter(HashedFields \cup UnhashedFields) => ListsTampered(RouteListed)

\* C2 (amended): after agent_id, action_type, timestamp, message or the hash
\* of a stored row that verified is altered in the table, a verification
\* read from the table lists the row's id as invalid (within the preview of
\* the first 10) and reports compromised.
C2_HashedFieldTamperDetected ==
    /\ ServiceVerifiedAfter(HashedFields) => ListsTampered(Range(ret.val.invalid_hashes))
    /\ RouteVerifiedAfter(HashedFields) => ListsTampered(RouteListed)

C2_Witness ==
    /\ ServiceVerifiedAfter(HashedFields)
    /\ tamper[1].field = "message"
    /\ ret.val.invalid_hashes = <<tamper[1].id>>

\* C5: a verification pass, by the service or the route, whatever it reports,
\* leaves the table, the cache and so every stored hash as they were.
C5_VerifyReadOnly ==
    [][ret'.op \in VerifyOps => UNCHANGED <<db, cache, fs, fcache>>]_vars

\* a pass has reported the altered row invalid and the row still holds the
\* hash that does not match
C5_Witness ==
    /\ ServiceVerifiedAfter(HashedFields)
    /\ ret.val.status = "compromised"
    /\ \E i \in 1..Len(db) :
          /\ db[i].id = tamper[1].id
          /\ db[i].hash # expected_hash(db[i], isoformat(db[i].timestamp))

\* C4: no operation but the retention purge changes a field of a stored
\* record or removes it: every row of the table and every document of the
\* collection is after the step what it was before it.  In particular an
\* append leaves a stored record that has the id it builds as it was.
C4_AppendOnly ==
    [][ret'.op # "cleanup_old_logs" =>
          /\ Len(db') >= Len(db)
          /\ \A i \in 1..Len(db) : db'[i] = db[i]
          /\ \A doc_id \in DOMAIN fs : Has(fs', doc_id) /\ fs'[doc_id] = fs[doc_id]]_vars

----------------------------------------------------------------------------
(* Claims about the queries *)

\* the lower bound a query was given, <<>> when none
SinceOf == IF "filter" \in DOMAIN ret THEN ret.filter.since ELSE ret.since

\* the instant of a returned record: the service returns dicts (ISO
\* strings), the routes return rows
InstantOf(r) ==
    IF ret.op \in {"get_activity_logs", "route_get_latest_activities"}
    THEN r.timestamp ELSE fromisoformat(r.timestamp)

\* C9: no query entry point, given `since`, returns a record whose timestamp
\* equals `since`.
C9_SinceExclusiveEverywhere ==
    (ret.op \in QueryOps /\ Returned /\ SinceOf # <<>>) =>
        \A k \in 1..Len(ret.val) : InstantOf(ret.val[k]) # SinceOf[1]

\* a filter that is given (not None) holds of a record
Satisfies(a, f) ==
    /\ f.agent_id # None => a.agent_id = f.agent_id
    /\ f.action_type # None => a.action_type = f.action_type
    /\ f.severity # None => a.severity = f.severity
    /\ f.since # <<>> => fromisoformat(a.timestamp) > f.since[1]

\* `result` is exactly the newest min(limit, m) of the m records of `pool`
\* that satisfy f, newest first
NewestMatching(result, pool, f, limit) ==
    LET matching == { i \in 1..Len(pool) : Satisfies(pool[i], f) }
        n == Len(result)
        T(a) == fromisoformat(a.timestamp)
    IN  /\ n = Min2(limit, Cardinality(matching))
        /\ \A k \in 1..n : Satisfies(result[k], f)
        /\ \A k \in 1..(n - 1) : T(result[k]) >= T(result[k + 1])
        /\ \E pick \in [1..n -> matching] :
              /\ \A j, k \in 1..n : j # k => pick[j] # pick[k]
              /\ \A k \in 1..n : result[k] = pool[pick[k]]
              /\ \A i \in matching \ { pick[k] : k \in 1..n } :
                    \A k \in 1..n : T(result[k]) >= T(pool[i])

ListOps == {"get_activities", "fs_get_activities"}

\* the records of the durable store behind the service that answered, as
\* dicts: the table's rows, or the collection's documents
DurableRecords ==
    IF ret.op = "get_activities" THEN ToDicts(db)
    ELSE LET docs == SeqOf(DOMAIN fs)
         IN  [i \in 1..Len(docs) |-> firestore_doc_to_dict(fs, docs[i])]

\* the records of the tier that answered: the durable store, or the
\* service's cache when the store raised
AnsweringTier ==
    IF ret.tier = "db" THEN DurableRecords
    ELSE IF ret.op = "get_activities" THEN cache ELSE fcache

\* C10 (as claimed): get_activities returns exactly the newest min(L, m) of
\* the m stored records that satisfy every given filter, newest first.
C10_NewestOfStored ==
    ret.op \in ListOps =>
        NewestMatching(ret.val, DurableRecords, ret.filter, ret.limit)

\* C10 (amended): get_activities, of either logger service, with a limit
\* L >= 1 returns exactly the newest min(L, m) of the m records that satisfy
\* every given filter among those of the tier that answers -- the durable
\* store, or the service's cache when the store raises -- newest first.
C10_NewestOfAnsweringTier ==
    ret.op \in ListOps =>
        NewestMatching(ret.val, AnsweringTier, ret.filter, ret.limit)

\* the cache answered, held more matching records than the limit, at
\* different instants and not in newest-first order
C10_Witness ==
    /\ ret.op = "get_activities" /\ ret.tier = "cache"
    /\ ret.filter.since # <<>>
    /\ Len(ret.val) = ret.limit
    /\ Len(cache) > ret.limit
    /\ \E i \in 1..Len(cache) :
          /\ Satisfies(cache[i], ret.filter)
          /\ fromisoformat(cache[i].timestamp) < fromisoformat(ret.val[Len(ret.val)].timestamp)

\* the filters of the service query that returned
AskedFilter ==
    IF ret.op = "get_activities" THEN ret.filter
    ELSE Filter(None, None, None, ret.since)

\* the answers the durable tier can give to the query that returned
DurableAnswers ==
    LET f == AskedFilter
        hits == SelectIdx(db, { i \in 1..Len(db) :
                                  /\ MatchesFields(db[i], f)
                                  /\ After(db[i].timestamp, f.since) }, 1)
    IN  { ToDicts(Take(activities, ret.limit)) :
            activities \in OrderedBy(hits, Descending(hits)) }

\* C11: when the cache tier answers get_activities or get_latest_activities
\* and the cache holds the records the table holds, the answer is one the
\* table would give: the newest `limit` records after `since`, newest first.
C11_TierTransparent ==
    (/\ ret.op \in {"get_activities", "get_latest_activities"}
     /\ ret.tier = "cache"
     /\ Len(cache) = Len(db)
     /\ Range(cache) = Range(ToDicts(db)))
        => ret.val \in DurableAnswers

\* the ids log_activity gives the well-formed requests
WellFormedIds ==
    { "activity-" \o ToString(t) \o "-"
          \o generate_hash(hash_input(r.agent_id, r.action_type, isoformat(t), r.message)) :
        r \in { q \in Requests : Truthy(q.agent_id) }, t \in 0..MaxClock }

\* log_activity has just returned the record `id` from its fallback branch
BufferedNow(id) ==
    /\ ret.op = "log_activity" /\ ret.tier = "cache" /\ ret.val.id = id

\* C12: an append whose durable write fails returns the complete record
\* without raising and leaves it in the cache, and every record so buffered
\* is eventually a row of the table.
C12_BufferedEventuallyDurable ==
    /\ [](\A id \in WellFormedIds : BufferedNow(id) =>
              /\ ~ret.raised
              /\ ret.val.hash = expected_hash(ret.val, ret.val.timestamp)
              /\ cache[Len(cache)] = ret.val)
    /\ \A id \in WellFormedIds :
          [](BufferedNow(id) => <>(\E j \in 1..Len(db) : db[j].id = id))

Malformed(r) ==
    \/ r.agent_id \in {"", None}
    \/ r.action_type \in {"", None}
    \/ r.message \in {"", None}

\* C8: no append accepts a request whose agent_id, action_type or message is
\* missing or empty: such a call returns no record.
C8_MalformedAppendRejected ==
    (ret.op \in AppendOps /\ Returned) => ~Malformed(ret.val)

----------------------------------------------------------------------------
(* Claims about the detection engine *)

\* a step of a detect_anomalies() call
DetectStepTaken == passes' # passes

\* a detect_anomalies() call returns in this step
DetectReturns ==
    /\ ret'.op = "detect_anomalies"
    /\ passes[ret'.pass].pc # "idle"
    /\ passes'[ret'.pass].pc = "idle"

\* C13: a detection pass is read-only against the ledger: no step of it adds
\* a record to the table or to a cache or changes anything but the anomaly
\* history, and a pass that follows another with the same metrics, the table
\* unchanged, finds the same anomalies.
C13_DetectReadOnly ==
    [][/\ DetectStepTaken =>
              UNCHANGED <<db, cache, uuid, fs, fcache, baseline_metrics, pattern_cache>>
       /\ (/\ DetectReturns
           /\ ret.op = "detect_anomalies"
           /\ ret'.arg = ret.arg
           /\ db' = db) => ret'.val.anomalies = ret.val.anomalies]_vars

\* the strategy the service's log names as failed in the line `line`
FailedStrategy(line) ==
    CASE line = "Error gathering system metrics: " \o AwaitOfList -> "metrics"
      [] line = "Error detecting activity pattern anomalies: " \o AwaitOfList -> "pattern"
      [] line = "Error detecting behavioral anomalies: " \o AwaitOfList -> "behavioral"
      [] line = "Error detecting correlation anomalies: " \o AwaitOfList -> "correlation"
      [] line = "Error detecting anomalies: " \o ItemsOfList -> "statistical"

\* what failed inside the pass that has just returned
Failures == { FailedStrategy(ret.log[i]) : i \in 1..Len(ret.log) }

\* C14: a detect_anomalies() call raises nothing, and a call inside which
\* something failed returns no anomaly, an all-zero severity breakdown and
\* an error field.
C14_FailureGivesErrorResult ==
    ret.op = "detect_anomalies" =>
        /\ ~ret.raised
        /\ Failures # {} =>
              /\ ret.val.anomalies = <<>>
              /\ ret.val.total_anomalies = 0
              /\ \A s \in DOMAIN ret.val.severity_breakdown :
                     ret.val.severity_breakdown[s] = 0
              /\ Has(ret.val, "error")

\* the fields of every result of detect_anomalies(), and the one more of an
\* error result
ResultFields ==
    {"anomalies", "total_anomalies", "severity_breakdown", "methods_used",
     "avg_confidence", "timestamp", "error"}

\* C15: when a strategy has failed inside a pass, the pass is not aborted:
\* it returns no error result, the strategies that did not fail are among
\* its methods_used, and the result names the failed ones, in a field of
\* their own or by leaving them out of methods_used.
C15_StrategyFailureIsolated ==
    (ret.op = "detect_anomalies" /\ Failures \cap Range(Methods) # {}) =>
        /\ ~Has(ret.val, "error")
        /\ Range(Methods) \ Failures \subseteq Range(ret.val.methods_used)
        /\ \/ DOMAIN ret.val \ ResultFields # {}
           \/ Failures \cap Range(ret.val.methods_used) = {}

\* C16: the anomaly history never holds more than 1000 records; a pass
\* leaves in it the most recent records of the old history followed by the
\* pass's anomalies, in that order; records leave it only from the old end
\* and only when it is full, and no record in it is altered.
C16_HistoryBounded ==
    [][/\ Len(anomaly_history') <= 1000
       /\ anomaly_history' # anomaly_history =>
             /\ DetectReturns
             /\ LET all == anomaly_history \o ret'.val.anomalies
                    evicted == Len(all) - Len(anomaly_history')
                IN  /\ evicted >= 0
                    /\ evicted > 0 => Len(anomaly_history') = 1000
                    /\ anomaly_history' = SubSeq(all, evicted + 1, Len(all))]_vars

\* a pass has pushed the oldest records out of a full history
C16_Witness ==
    /\ ret.op = "detect_anomalies"
    /\ Len(ret.val.anomalies) = 3
    /\ Len(anomaly_history) = 1000
    /\ anomaly_history[1].value > 10601
    /\ SubSeq(anomaly_history, 998, 1000) = ret.val.anomalies

\* the names of the metrics a pass was given or gathered
MetricNames(metrics) ==
    IF metrics.type = "dict"
    THEN { metrics.items[i].name : i \in 1..Len(metrics.items) }
    ELSE {}

\* C17: when a pass that overlapped another returns (the history within its
\* cap), the history is the history before with the pass's batch appended
\* to it whole, nothing of it lost or doubled, and the anomalies the pass
\* returns are that batch and are about its own metrics only.
C17_OverlappingPassesKeepBatches ==
    [][(/\ DetectReturns
        /\ ret'.began # {} \/ InProgress \ {ret'.pass} # {}
        /\ Len(anomaly_history) + Len(ret'.val.anomalies) <= 1000) =>
            /\ anomaly_history' = anomaly_history \o ret'.val.anomalies
            /\ \A i \in 1..Len(ret'.val.anomalies) :
                  ret'.val.anomalies[i].metric \in MetricNames(passes[ret'.pass].metrics)]_vars

\* two passes that overlapped have both returned, and the history holds the
\* batch of the one followed by the batch of the other
C17_Witness ==
    /\ ret.op = "detect_anomalies"
    /\ ret.began # {}
    /\ InProgress = {}
    /\ ret.val.anomalies # <<>>
    /\ Len(anomaly_history) > Len(ret.val.anomalies)
    /\ anomaly_history[1].metric \notin MetricNames(ret.metrics)

\* no event has been recorded: the table and the cache are empty
EmptyLedger == db = <<>> /\ cache = <<>>

\* C18: on an empty ledger get_activity_stats returns its six counters all
\* zero, and detect_anomalies() returns no anomaly, no error field, and the
\* four strategies as methods_used.
C18_EmptyLedger ==
    EmptyLedger =>
        /\ ret.op = "get_activity_stats" =>
              \A k \in {"total_activities", "decisions", "data_points", "errors",
                         "avg_response_time", "active_agents"} : ret.val[k] = 0
        /\ (ret.op = "detect_anomalies" /\ ret.arg = NoMetrics) =>
              /\ ~ret.raised
              /\ ret.val.anomalies = <<>>
              /\ ret.val.total_anomalies = 0
              /\ ~Has(ret.val, "error")
              /\ ret.val.methods_used =
                    <<"statistical", "pattern", "behavioral", "correlation">>

\* detect_anomalies() has returned on an empty ledger
C18_Witness ==
    /\ EmptyLedger
    /\ ret.op = "detect_anomalies"
    /\ ret.arg = NoMetrics
    /\ ret.val.total_anomalies = 0

\* the statistical outliers of a result that are about the metric `name`
OutliersOf(result, name) ==
    { i \in 1..Len(result.anomalies) :
        /\ result.anomalies[i].type = "statistical_outlier"
        /\ result.anomalies[i].metric = name }

\* the severity the rule gives a value that lies `distance` from the mean of
\* a baseline of deviation `std`
SeverityBySigma(distance, std) ==
    IF distance > 4 * std THEN "critical"
    ELSE IF distance > 3 * std THEN "high"
    ELSE IF distance > 2 * std THEN "medium"
    ELSE "low"

\* C19: a pass over a dict of metrics returns exactly one statistical_outlier
\* for each metric that is a number, has a baseline and lies further from the
\* baseline's mean than threshold_multiplier (2) times its deviation, and
\* none for any other metric; the outlier's severity is critical beyond 4
\* deviations, high beyond 3, medium beyond 2 and low otherwise.  With the
\* baseline of cpu_usage at mean 45, deviation 15, the value 95 gives one
\* outlier of severity high.
C19_StatisticalOutliers ==
    (ret.op = "detect_anomalies" /\ ret.metrics.type = "dict") =>
        /\ \A i \in 1..Len(ret.metrics.items) :
              LET name == ret.metrics.items[i].name
                  value == ret.metrics.items[i].value
                  found == OutliersOf(ret.val, name)
              IN  IF /\ value.isinstance = "float"
                     /\ name \in DOMAIN baseline_metrics
                     /\ Abs(value.v - baseline_metrics[name].mean)
                            > baseline_metrics[name].std * 2
                  THEN /\ Cardinality(found) = 1
                       /\ \A j \in found :
                             /\ ret.val.anomalies[j].value = value.v
                             /\ ret.val.anomalies[j].severity =
                                   SeverityBySigma(
                                       Abs(value.v - baseline_metrics[name].mean),
                                       baseline_metrics[name].std)
                  ELSE found = {}
        /\ (/\ ret.metrics = Dict(<<Metric("cpu_usage", Num(9500))>>)
            /\ baseline_metrics # EmptyDict
            /\ baseline_metrics["cpu_usage"] = [mean |-> 4500, std |-> 1500]) =>
                /\ Len(ret.val.anomalies) = 1
                /\ ret.val.anomalies[1].type = "statistical_outlier"
                /\ ret.val.anomalies[1].severity = "high"

\* the pass over cpu_usage = 95 has returned its one outlier
C19_Witness ==
    /\ ret.op = "detect_anomalies"
    /\ ret.metrics = Dict(<<Metric("cpu_usage", Num(9500))>>)
    /\ Len(ret.val.anomalies) = 1
    /\ ret.val.anomalies[1].metric = "cpu_usage"
    /\ ret.val.anomalies[1].severity = "high"

\* clock readings to the hour: two to the second, 3600 seconds
ticks_per_hour == 7200

\* the rate an agent is compared with: the learned one, or 10 an hour
BaselineRate(agent) ==
    IF Has(pattern_cache, "agent_patterns") /\ Has(pattern_cache["agent_patterns"], agent)
    THEN pattern_cache["agent_patterns"][agent].rate_per_hour
    ELSE 10

\* the activity_pattern anomalies of a result about `agent`, of the severity
\* the engine gives the kind: medium for too high a rate, low for too low
RateAnomalies(result, agent, severity) ==
    { i \in 1..Len(result.anomalies) :
        /\ result.anomalies[i].type = "activity_pattern"
        /\ result.anomalies[i].agent_id = agent
        /\ result.anomalies[i].severity = severity }

\* C20: a pass that returns a result judges every agent with records in the
\* table, all of them of the last hour, by its rate: the number of its
\* records over the hours between the oldest and the newest record (over one
\* hour when these coincide).  It returns a high-activity anomaly for the
\* agent iff the rate is above 3 times the baseline rate, a low-activity one
\* iff the rate is under 0.2 times the baseline rate and the baseline rate
\* is above 5, and never both.
C20_ActivityRateRule ==
    [][(/\ DetectReturns
        /\ ~Has(ret'.val, "error")
        /\ db # <<>>) =>
            LET span == LET stamps == { db[i].timestamp : i \in 1..Len(db) }
                        IN  (CHOOSE t \in stamps : \A u \in stamps : u <= t)
                            - (CHOOSE t \in stamps : \A u \in stamps : t <= u)
                \* the rate as the fraction num / den, in records an hour
                num(agent) ==
                    Cardinality({ i \in 1..Len(db) : db[i].agent_id = agent })
                        * (IF span > 0 THEN ticks_per_hour ELSE 1)
                den == IF span > 0 THEN span ELSE 1
                TooHigh(agent) == num(agent) > BaselineRate(agent) * 3 * den
                TooLow(agent) == /\ 5 * num(agent) < BaselineRate(agent) * den
                                 /\ BaselineRate(agent) > 5
            IN  \A agent \in { db[i].agent_id : i \in 1..Len(db) } :
                  /\ RateAnomalies(ret'.val, agent, "medium") # {} <=> TooHigh(agent)
                  /\ RateAnomalies(ret'.val, agent, "low") # {} <=> TooLow(agent)
                  /\ \/ RateAnomalies(ret'.val, agent, "medium") = {}
                     \/ RateAnomalies(ret'.val, agent, "low") = {}]_vars

\* error_rate_threshold of the constructor, in hundredths
error_rate_threshold == 20

\* the error_pattern anomalies of a result about `agent`
ErrorAnomalies(result, agent) ==
    { i \in 1..Len(result.anomalies) :
        /\ result.anomalies[i].type = "error_pattern"
        /\ result.anomalies[i].agent_id = agent }

\* C21: a pass that returns a result judges every agent with records in the
\* table, all of them of the last hour, by its error ratio: the number of
\* its records of severity critical or of action type error over the number
\* of its records (records of severity high that are no errors do not
\* count).  It returns an error_pattern anomaly for the agent, of severity
\* high, iff the ratio is above error_rate_threshold.
C21_ErrorRatioRule ==
    [][(/\ DetectReturns
        /\ ~Has(ret'.val, "error")
        /\ db # <<>>) =>
            LET Of(agent) == { i \in 1..Len(db) : db[i].agent_id = agent }
                Errors(agent) == { i \in Of(agent) :
                                     \/ db[i].severity = "critical"
                                     \/ db[i].action_type = "error" }
                Exceeds(agent) == Cardinality(Errors(agent)) * 100
                                    > error_rate_threshold * Cardinality(Of(agent))
            IN  \A agent \in { db[i].agent_id : i \in 1..Len(db) } :
                  /\ ErrorAnomalies(ret'.val, agent) # {} <=> Exceeds(agent)
                  /\ \A i \in ErrorAnomalies(ret'.val, agent) :
                        ret'.val.anomalies[i].severity = "high"]_vars

----------------------------------------------------------------------------
(* The engine over a ledger that holds a history *)

\* a decision logged with its confidence (in tenths) in the metadata
Decision(agent_id, message, confidence) ==
    Request(agent_id, "decision", message, "info",
            [metadata |-> [context |-> "decision", confidence |-> confidence,
                           impact_score |-> 50]])

\* a log_activity call made at the clock reading t
Call(req, t) == [req |-> req, t |-> t]

\* the table and the cache after the log_activity calls `calls`, every one
\* of them accepted by the database
RECURSIVE Logged(_)
Logged(calls) ==
    IF calls = <<>>
    THEN [db |-> <<>>, cache |-> <<>>]
    ELSE LET before == Logged(SubSeq(calls, 1, Len(calls) - 1))
             call == calls[Len(calls)]
         IN  log_activity(before.db, before.cache, call.req, call.t, TRUE)

\* clock readings to a five-minute window: two to the second, 300 seconds
window_ticks == 600

\* The histories the passes run over, with the clock reading they are left
\* at: five decisions of low confidence; four of them; one agent alone in
\* each of six five-minute windows; one agent in ten windows, alone in eight
\* of them; a record, then initialize() (the initialization record marks
\* it), then three records more.
Windows ==
    { [calls |-> [i \in 1..5 |-> Call(Decision("a1", "m" \o ToString(i), 3), 0)],
       now |-> 0],
      [calls |-> [i \in 1..4 |-> Call(Decision("a1", "m" \o ToString(i), 3), 0)],
       now |-> 0],
      [calls |-> [i \in 1..6 |-> Call(Decision("a1", "m", 10), (i - 1) * window_ticks)],
       now |-> 5 * window_ticks],
      [calls |-> <<Call(Decision("a1", "m", 10), 0), Call(Decision("a2", "m", 10), 0),
                   Call(Decision("a1", "m", 10), window_ticks),
                   Call(Decision("a2", "m", 10), window_ticks)>>
                 \o [i \in 1..8 |-> Call(Decision("a1", "m", 10), (i + 1) * window_ticks)],
       now |-> 9 * window_ticks],
      [calls |-> <<Call(Decision("a1", "m1", 10), 0), Call(InitializationRequest, 0)>>
                 \o [i \in 1..3 |-> Call(Decision("a1", "m" \o ToString(i + 1), 10), 0)],
       now |-> 0] }

\* the engine is initialized where the history holds initialize()'s record
InitWindow ==
    \E w \in Windows :
        /\ now = w.now
        /\ db = Logged(w.calls).db
        /\ cache = Logged(w.calls).cache
        /\ uuid = 0
        /\ ret = [op |-> "init"]
        /\ tamper = <<>>
        /\ fs = EmptyDict
        /\ fcache = <<>>
        /\ baseline_metrics =
              IF \E i \in 1..Len(w.calls) : w.calls[i].req = InitializationRequest
              THEN load_baseline_metrics ELSE EmptyDict
        /\ pattern_cache = learn_baseline_patterns(EmptyDict)
        /\ anomaly_history = <<>>
        /\ passes = [p \in Passes |-> Idle]

\* the metrics of the passes over a history: none given, and one outlier
WindowInputs ==
    { NoMetrics, Dict(<<Metric("cpu_usage", Num(9500))>>) }

\* the most records the passes over a history leave in anomaly_history
MaxStored == 2

\* passes over a ledger with a history, one at a time
NextWindow ==
    \/ Tick
    \/ \E metrics \in WindowInputs :
          /\ InProgress = {}
          /\ Len(anomaly_history) < MaxStored
          /\ DetectStart("p1", metrics)
    \/ \E p \in Passes : DetectStatistical(p)
    \/ \E p \in Passes : DetectPattern(p)
    \/ \E p \in Passes : DetectBehavioral(p)
    \/ \E p \in Passes : DetectCorrelation(p)
    \/ \E p \in Passes, ok \in BOOLEAN : DetectLog(p, ok)

SpecWindow == InitWindow /\ [][NextWindow]_vars

\* the anomalies of a result of the type given
OfType(result, type) ==
    { i \in 1..Len(result.anomalies) : result.anomalies[i].type = type }

\* C22: a pass over a table of decisions, all of them of the last six hours,
\* returns a result without error; over fewer than 5 decisions the result
\* holds no behavioral_anomaly and no performance_anomaly; over 5 or more
\* decisions whose mean confidence is below 0.5 it holds exactly one
\* behavioral_anomaly, of severity medium.
C22_BehavioralFloor ==
    [][DetectReturns =>
          LET decisions == { i \in 1..Len(db) : db[i].action_type = "decision" }
              confidences == [i \in 1..Len(db) |->
                                IF i \in decisions /\ Has(db[i].data.metadata, "confidence")
                                THEN db[i].data.metadata.confidence ELSE 0]
              scored == { i \in decisions : Has(db[i].data.metadata, "confidence") }
          IN  /\ ~Has(ret'.val, "error")
              /\ Cardinality(decisions) < 5 =>
                    /\ OfType(ret'.val, "behavioral_anomaly") = {}
                    /\ OfType(ret'.val, "performance_anomaly") = {}
              /\ (/\ Cardinality(decisions) >= 5
                  /\ scored # {}
                  /\ Sum(confidences) < 5 * Cardinality(scored)) =>
                    /\ Cardinality(OfType(ret'.val, "behavioral_anomaly")) = 1
                    /\ \A i \in OfType(ret'.val, "behavioral_anomaly") :
                          ret'.val.anomalies[i].severity = "medium"]_vars

\* C23: a pass that follows initialize() judges the rate of every agent
\* whose records learn() scanned (the records logged before initialize()'s
\* own) against the rate learn() took from them, the agent's records over
\* the hours they span, and not against the default of 10 an hour: it
\* returns a high-activity anomaly for the agent iff its present rate is
\* above 3 times the learned rate, a low-activity one iff it is under 0.2
\* times the learned rate and the learned rate is above 5.
C23_LearnedBaselinesUsed ==
    [][(/\ DetectReturns
        /\ ~Has(ret'.val, "error")
        /\ \E k \in 2..Len(db) : db[k].action_type = "initialization") =>
            LET k == CHOOSE k \in 2..Len(db) : db[k].action_type = "initialization"
                SpanOf(rows) ==
                    LET stamps == { db[i].timestamp : i \in rows }
                    IN  (CHOOSE t \in stamps : \A u \in stamps : u <= t)
                        - (CHOOSE t \in stamps : \A u \in stamps : t <= u)
                \* the rate of `agent` over `rows` as the fraction Num / Den
                RateNum(agent, rows) ==
                    Cardinality({ i \in rows : db[i].agent_id = agent })
                        * (IF SpanOf(rows) > 0 THEN ticks_per_hour ELSE 1)
                RateDen(rows) == IF SpanOf(rows) > 0 THEN SpanOf(rows) ELSE 1
                scanned == 1..(k - 1)
                recent == 1..Len(db)
                TooHigh(agent) ==
                    RateNum(agent, recent) * RateDen(scanned)
                        > 3 * RateNum(agent, scanned) * RateDen(recent)
                TooLow(agent) ==
                    /\ 5 * RateNum(agent, recent) * RateDen(scanned)
                          < RateNum(agent, scanned) * RateDen(recent)
                    /\ RateNum(agent, scanned) > 5 * RateDen(scanned)
            IN  \A agent \in { db[i].agent_id : i \in scanned } :
                  /\ RateAnomalies(ret'.val, agent, "medium") # {} <=> TooHigh(agent)
                  /\ RateAnomalies(ret'.val, agent, "low") # {} <=> TooLow(agent)]_vars

\* isolation_rate_threshold of the constructor, in hundredths
isolation_rate_threshold == 70

\* the correlation_anomaly records of a result about `agent`
CorrelationAnomalies(result, agent) ==
    { i \in 1..Len(result.anomalies) :
        /\ result.anomalies[i].type = "correlation_anomaly"
        /\ result.anomalies[i].agent_id = agent }

\* C24: a pass over a table whose records are all of the last two hours
\* returns exactly one correlation_anomaly, of severity low, for every agent
\* that is active in more than 5 five-minute windows and is the only active
\* agent in more than isolation_rate_threshold of them, however few records
\* the table holds, and none for any other agent.
C24_IsolationRule ==
    [][(/\ DetectReturns
        /\ ~Has(ret'.val, "error")) =>
            LET WindowOf(i) == db[i].timestamp \div window_ticks
                Active(agent) ==
                    { WindowOf(i) : i \in { j \in 1..Len(db) : db[j].agent_id = agent } }
                Alone(agent) ==
                    { w \in Active(agent) :
                        \A i \in 1..Len(db) : WindowOf(i) = w => db[i].agent_id = agent }
                Isolated(agent) ==
                    /\ Cardinality(Active(agent)) > 5
                    /\ Cardinality(Alone(agent)) * 100
                          > isolation_rate_threshold * Cardinality(Active(agent))
            IN  \A agent \in { db[i].agent_id : i \in 1..Len(db) } :
                  /\ Cardinality(CorrelationAnomalies(ret'.val, agent))
                        = IF Isolated(agent) THEN 1 ELSE 0
                  /\ \A i \in CorrelationAnomalies(ret'.val, agent) :
                        ret'.val.anomalies[i].severity = "low"]_vars

\* a step in which initialize() returns
InitializeReturns ==
    /\ ret'.op = "initialize"
    /\ passes' = passes
    /\ cache' # cache

\* C25: the learn() of initialize() over a table that holds records leaves,
\* for every agent with records in it, rate_per_hour = the number of the
\* agent's records over the hours between the oldest and the newest record
\* (over one hour when these coincide); over an empty table it leaves the
\* engine without agent patterns.
C25_LearnSetsRates ==
    [][InitializeReturns =>
          LET stamps == { db[i].timestamp : i \in 1..Len(db) }
              span == (CHOOSE t \in stamps : \A u \in stamps : u <= t)
                      - (CHOOSE t \in stamps : \A u \in stamps : t <= u)
              count(agent) == Cardinality({ i \in 1..Len(db) : db[i].agent_id = agent })
          IN  IF db = <<>>
              THEN \/ ~Has(pattern_cache', "agent_patterns")
                   \/ pattern_cache'["agent_patterns"] = EmptyDict
              ELSE \A agent \in { db[i].agent_id : i \in 1..Len(db) } :
                      /\ Has(pattern_cache', "agent_patterns")
                      /\ Has(pattern_cache'["agent_patterns"], agent)
                      /\ IF span > 0
                         THEN pattern_cache'["agent_patterns"][agent].rate_per_hour * span
                                 = count(agent) * ticks_per_hour
                         ELSE pattern_cache'["agent_patterns"][agent].rate_per_hour
                                 = count(agent)]_vars

----------------------------------------------------------------------------
(* Passes that are aborted *)

\* an abort that files what the pass had found so far
DetectCancelStoring(p) ==
    /\ passes[p].pc \in {"pattern", "behavioral", "correlation", "log", "except"}
    /\ passes' = [passes EXCEPT ![p] = Idle]
    /\ anomaly_history' = stored(anomaly_history, passes[p].anomalies)
    /\ ret' = [op |-> "detect_anomalies", pass |-> p, arg |-> passes[p].arg,
               metrics |-> passes[p].metrics, began |-> passes[p].began,
               log |-> passes[p].log, raised |-> TRUE,
               anomalies |-> passes[p].anomalies]
    /\ UNCHANGED <<db, cache, now, uuid, tamper, fs, fcache,
                   baseline_metrics, pattern_cache>>

\* The task running the pass is cancelled while the pass waits at one of its
\* awaits: CancelledError, a BaseException, is raised there, passes every
\* `except Exception` and leaves detect_anomalies; the anomalies collected
\* so far (kept in `anomalies` of the return for reference) go with the frame.
DetectCancel(p) ==
    /\ passes[p].pc \in {"pattern", "behavioral", "correlation", "log", "except"}
    /\ passes' = [passes EXCEPT ![p] = Idle]
    /\ ret' = [op |-> "detect_anomalies", pass |-> p, arg |-> passes[p].arg,
               metrics |-> passes[p].metrics, began |-> passes[p].began,
               log |-> passes[p].log, raised |-> TRUE,
               anomalies |-> passes[p].anomalies]
    /\ UNCHANGED <<db, cache, now, uuid, tamper, fs, fcache,
                   baseline_metrics, pattern_cache, anomaly_history>>

\* passes, one at a time, each of which may be cancelled at any of its
\* awaits
NextAbort ==
    \/ InProgress = {} /\ Tick
    \/ \E ok \in BOOLEAN : InProgress = {} /\ Initialize(ok)
    \/ \E metrics \in OverlapInputs :
          /\ InProgress = {}
          /\ Len(cache) <= MaxAppends
          /\ DetectStart("p1", metrics)
    \/ \E p \in Passes : DetectSteps(p)
    \/ \E p \in Passes : DetectCancel(p)

SpecAbort == Init /\ [][NextAbort]_vars

\* C26: a pass commits all or nothing.  anomaly_history changes only in the
\* step in which a pass returns its normal result, and then to the history
\* before followed by all the anomalies of that result (cut to the cap); a
\* pass that returns the error result or is aborted leaves anomaly_history
\* and the pattern cache as they were.  The pattern cache changes only in
\* initialize(), and then to one that holds both the agent patterns and the
\* hourly distribution.
C26_PassesCommitAllOrNothing ==
    [][LET failed == ret'.raised \/ Has(ret'.val, "error")
           all == anomaly_history \o ret'.val.anomalies
       IN  /\ DetectReturns /\ failed =>
                 /\ anomaly_history' = anomaly_history
                 /\ pattern_cache' = pattern_cache
           /\ DetectReturns /\ ~failed =>
                 anomaly_history' =
                    IF Len(all) > history_cap
                    THEN SubSeq(all, Len(all) - history_cap + 1, Len(all)) ELSE all
           /\ anomaly_history' # anomaly_history => DetectReturns /\ ~failed
           /\ pattern_cache' # pattern_cache =>
                 /\ InitializeReturns
                 /\ Has(pattern_cache', "agent_patterns")
                 /\ Has(pattern_cache', "hourly_patterns")]_vars

\* a pass was aborted with anomalies in hand, after an earlier pass had
\* stored its own, and the history holds the earlier ones only
C26_Witness ==
    /\ ret.op = "detect_anomalies"
    /\ ret.raised
    /\ ret.anomalies # <<>>
    /\ anomaly_history # <<>>
    /\ \A i \in 1..Len(anomaly_history) :
          anomaly_history[i].timestamp # ret.anomalies[1].timestamp

----------------------------------------------------------------------------
(* Verification of a ledger that holds many records *)

\* the most rows of either origin in the table: one more than a report lists
MaxPairs == PreviewCap + 1

\* The table after n POST / requests and n log_activity calls made in turn,
\* one to a clock reading: the j-th row is the route's for odd j and the
\* service's, which the cache holds too, for even j.
InitIntegrity ==
    \E n \in 0..MaxPairs :
        LET req == Request("a1", "decision", "m", "info", EmptyDict)
            logged(j) == log_activity(<<>>, <<>>, req, j, TRUE)
        IN  /\ db = [j \in 1..(2 * n) |->
                        IF j % 2 = 1 THEN create_activity_log(req, j, j, j \div 2)
                        ELSE logged(j).db[1]]
            /\ cache = [i \in 1..n |-> logged(2 * i).val]
            /\ now = 2 * n
            /\ uuid = n
            /\ ret = [op |-> "init"]
            /\ tamper = <<>>
            /\ fs = EmptyDict
            /\ fcache = <<>>
            /\ EngineInit

\* verification by the service and by the route, before and after one row
\* was altered in the table
NextIntegrity ==
    \/ \E ok \in BOOLEAN : VerifyIntegrity(ok)
    \/ \E ok \in BOOLEAN : RouteVerifyIntegrity(ok)
    \/ \E i \in 1..(2 * MaxPairs), field \in HashedFields \cup UnhashedFields :
          Tamper(i, field)

SpecIntegrity == InitIntegrity /\ [][NextIntegrity]_vars

\* the record ids a report lists as invalid: the service lists ids, the
\* route a dict with the id for each
ListedIds ==
    IF ret.op = "verify_integrity" THEN ret.val.invalid_hashes
    ELSE [i \in 1..Len(ret.val.invalid_hashes) |-> ret.val.invalid_hashes[i].id]

\* C27: in every report of a verification pass, by the service from the
\* table or from the cache or by the route, verified_records +
\* invalid_records = total_records = the number of records examined, the
\* status is 'verified' iff invalid_records is 0 and 'compromised'
\* otherwise, invalid_records is the number of records whose hash does not
\* match, and the ids listed are those of the first min(10, invalid_records)
\* of them in the order the pass examined the records.
C27_IntegrityReportConsistent ==
    (ret.op \in VerifyOps /\ Returned) =>
        LET r == ret.val
            examined ==
                IF ret.op = "route_verify_integrity" THEN OrderedBy(db, Ascending(db))
                ELSE IF ret.tier = "db" THEN {db} ELSE {cache}
            rendered(a) ==
                IF ret.op = "route_verify_integrity" THEN str_datetime(a.timestamp)
                ELSE IF ret.tier = "db" THEN isoformat(a.timestamp) ELSE a.timestamp
            mismatching(rows) ==
                { i \in 1..Len(rows) :
                    rows[i].hash # generate_hash(
                        hash_input(rows[i].agent_id, rows[i].action_type,
                                   rendered(rows[i]), rows[i].message)) }
            \* position i of the list holds the id of the i-th mismatching row
            InOrder(rows) ==
                \A i \in 1..Len(ListedIds) :
                    \E k \in mismatching(rows) :
                        /\ rows[k].id = ListedIds[i]
                        /\ Cardinality({ j \in mismatching(rows) : j < k }) = i - 1
        IN  /\ r.verified_records + r.invalid_records = r.total_records
            /\ r.status = IF r.invalid_records = 0 THEN "verified" ELSE "compromised"
            /\ \E rows \in examined :
                  /\ r.total_records = Len(rows)
                  /\ r.invalid_records = Cardinality(mismatching(rows))
                  /\ Len(ListedIds) = IF r.invalid_records < 10 THEN r.invalid_records ELSE 10
                  /\ InOrder(rows)

\* a pass over the table found eleven records invalid among others that
\* verify, and lists ten
C27_Witness ==
    /\ ret.op = "verify_integrity"
    /\ ret.tier = "db"
    /\ ret.val.invalid_records = 11
    /\ ret.val.verified_records > 0
    /\ Len(ret.val.invalid_hashes) = 10
    /\ ret.val.status = "compromised"

----------------------------------------------------------------------------
(* The cache at its limit *)

\* the most log_activity calls made before the run: one more than the cache
\* holds
MaxLogged == cache_limit + 1

\* the i-th of the log_activity calls made before the run
EarlierCall(i) ==
    Call(Request("a1", "decision", "m" \o ToString(i), "info", EmptyDict), 0)

\* the service after cache_limit - 1, cache_limit or cache_limit + 1
\* log_activity calls, each with a message of its own and each accepted by
\* the database: the table holds every record, the cache the last
\* cache_limit of them
InitCache ==
    \E n \in (MaxLogged - 2)..MaxLogged :
        /\ now = 0
        /\ db = [i \in 1..n |->
                    log_activity(<<>>, <<>>, EarlierCall(i).req, EarlierCall(i).t, TRUE).db[1]]
        /\ cache = [i \in 1..Min2(n, cache_limit) |->
                       to_dict(db[i + n - Min2(n, cache_limit)])]
        /\ uuid = 0
        /\ ret = [op |-> "init"]
        /\ tamper = <<>>
        /\ fs = EmptyDict
        /\ fcache = <<>>
        /\ EngineInit

\* the messages of the calls made before the run
EarlierMessages == { EarlierCall(i).req.message : i \in 1..MaxLogged }

\* the records in the cache that the calls of the run left there
OfTheRun == { i \in 1..Len(cache) : cache[i].message \notin EarlierMessages }

\* log_activity calls on a cache that is full or nearly so
NextCache ==
    \/ Tick
    \/ \E req \in Requests, ok \in BOOLEAN :
          Cardinality(OfTheRun) < MaxAppends /\ LogActivity(req, ok)

SpecCache == InitCache /\ [][NextCache]_vars

\* C28: every log_activity call, whether the table took the record or not,
\* leaves the cache holding the records it held followed by the record the
\* call returns, less the oldest ones beyond 100: at most 100 records, the
\* most recently appended ones in the order of their appends, the returned
\* record last.
C28_CacheHoldsNewest ==
    [][(/\ ret'.op = "log_activity"
        /\ <<ret', cache', db'>> # <<ret, cache, db>>) =>
            LET all == cache \o <<ret'.val>>
            IN  /\ Len(cache') <= 100
                /\ cache' = IF Len(all) > 100
                            THEN SubSeq(all, Len(all) - 99, Len(all)) ELSE all
                /\ cache'[Len(cache')] = ret'.val]_vars

\* a call whose write failed returned a record that the cache, full before
\* it, holds last, the oldest record having left
C28_Witness ==
    /\ ret.op = "log_activity"
    /\ ret.tier = "cache"
    /\ Len(cache) = 100
    /\ cache[100] = ret.val
    /\ Len(db) = 100
    /\ cache[1].id # db[1].id

----------------------------------------------------------------------------
(* Claims about the results and the records of the engine *)

\* C29: in every result detect_anomalies() returns, the normal and the
\* error result alike, total_anomalies is the length of the anomalies list,
\* every anomaly in the list has severity critical, high, medium or low, and
\* the counts of severity_breakdown for these four add up to
\* total_anomalies.
C29_BreakdownAddsUp ==
    (ret.op = "detect_anomalies" /\ Returned) =>
        LET r == ret.val
        IN  /\ r.total_anomalies = Len(r.anomalies)
            /\ DOMAIN r.severity_breakdown = {"critical", "high", "medium", "low"}
            /\ r.severity_breakdown["critical"] + r.severity_breakdown["high"]
                  + r.severity_breakdown["medium"] + r.severity_breakdown["low"]
                  = r.total_anomalies
            /\ \A i \in 1..Len(r.anomalies) :
                  r.anomalies[i].severity \in {"critical", "high", "medium", "low"}

\* a pass returned two anomalies, one critical and one medium
C29_Witness ==
    /\ ret.op = "detect_anomalies"
    /\ Returned
    /\ ret.val.total_anomalies = 2
    /\ ret.val.severity_breakdown["critical"] = 1
    /\ ret.val.severity_breakdown["medium"] = 1

\* C30: no two anomaly records share an id: not two of the records a pass
\* returns, several outliers of one pass included, and not two of the
\* records anomaly_history holds, records of passes run within the same
\* second included.
C30_AnomalyIdsDistinct ==
    /\ \A i, j \in 1..Len(anomaly_history) :
          i # j => anomaly_history[i].id # anomaly_history[j].id
    /\ (ret.op = "detect_anomalies" /\ Returned) =>
          \A i, j \in 1..Len(ret.val.anomalies) :
              i # j => ret.val.anomalies[i].id # ret.val.anomalies[j].id
====
